---- MODULE Spec2Model ----
(***************************************************************************)
(* brainrust: a Brainfuck compiler emitting a Linux x86-64 ELF executable. *)
(*                                                                         *)
(* The model covers the assembler (src/src/elf_assembler.rs: machine-code  *)
(* buffer, label table, branch patching), the code generator               *)
(* (src/src/compiler.rs: one code fragment per token, loop stack, buffered *)
(* I/O, flush, exit) and the execution of the emitted bytes by an x86-64   *)
(* processor together with the three system calls the program uses.        *)
(*                                                                         *)
(* Offsets and label indices are 0-based as in the source; TLA+ sequences  *)
(* are 1-based, so byte offset o of machine_code is machine_code[o + 1].   *)
(* A 64-bit quantity is kept as its 8 little-endian bytes (TLC integers    *)
(* are 32 bits wide), and all register arithmetic is done on those bytes,  *)
(* modulo 2^64.                                                            *)
(***************************************************************************)
EXTENDS Integers, Sequences, FiniteSets, TLC

VARIABLES
    asm,          \* ElfAssembler: memory_allocated, label_states, machine_code, panic
    loop_stack,   \* compile's loop_stack: sequence of <<start_label, end_label>>
    tokens,       \* the token sequence the stream delivers to compile
    pos,          \* number of tokens compile has consumed
    starts,       \* machine_code.len() when compile took each token, then EndOfFile
    output,       \* the bytes written to the output sink
    phase,        \* where the pipeline stands
    branches,     \* the branches emitted so far: records [site, label]
    cpu,          \* registers, flags and instruction pointer of the running program
    mem,          \* the zero-fill segment: offset -> non-zero byte (absent = 0)
    stdin,        \* bytes not yet delivered by read
    stdout,       \* bytes accepted by write so far
    status,       \* process status: "none", "running", "exited", "fault"
    exit_code,    \* status passed to exit (-1 while not exited)
    input,        \* the whole input the process is started with
    last_io,      \* the last read or write system call: [nr, ret]
    ref,          \* the reference interpreter's state
    source,       \* the bytes of the source text the parser reads
    parser,       \* Parser: its Stream (line, column, peeked, bytes not yet read)
    parsed,       \* what the calls of Parser::parse returned, in order
    limits        \* a code length and an allocation next to their limits

compVars == <<asm, loop_stack, pos, starts, output>>
procVars == <<cpu, mem, stdin, stdout, status, exit_code, last_io>>
frontVars == <<source, parser, parsed>>
vars == <<compVars, procVars, tokens, input, phase, branches, ref, frontVars, limits>>

(***************************************************************************)
(* Program constants.                                                      *)
(***************************************************************************)
TAPE_LENGTH == 30000
INPUT_BUFFER_SIZE == 16
OUTPUT_BUFFER_SIZE == 16

I32_MAX == 2147483647

\* 0x1000000001c6, 0x600000000000 and 0x7fffffffffff, little-endian
TEXT_VIRTUAL_ADDRESS == <<198, 1, 0, 0, 0, 16, 0, 0>>
BSS_VIRTUAL_ADDRESS == <<0, 0, 0, 0, 0, 96, 0, 0>>
MAX_VIRTUAL_ADDRESS == <<255, 255, 255, 255, 255, 127, 0, 0>>

(***************************************************************************)
(* Bytes and little-endian words.                                          *)
(***************************************************************************)
Byte == 0..255

\* n.to_le_bytes() for a w-byte integer; a negative n comes out in two's
\* complement (\div rounds down and % is never negative).
RECURSIVE to_le_bytes(_, _)
to_le_bytes(n, w) ==
    IF w = 0 THEN <<>> ELSE <<n % 256>> \o to_le_bytes(n \div 256, w - 1)

\* x + y + carry on little-endian byte strings of equal length, modulo 256^Len;
\* the result is <<bytes, carry out>>.
RECURSIVE AddCarry(_, _, _)
AddCarry(x, y, c) ==
    IF x = <<>> THEN <<(<<>>), c>>
    ELSE LET s == x[1] + y[1] + c
             rest == AddCarry(Tail(x), Tail(y), s \div 256)
         IN  <<(<<s % 256>>) \o rest[1], rest[2]>>

Complement(x) == [i \in 1..Len(x) |-> 255 - x[i]]

WAdd(x, y) == AddCarry(x, y, 0)[1]
WSub(x, y) == AddCarry(x, Complement(y), 1)[1]

Zero64 == <<0, 0, 0, 0, 0, 0, 0, 0>>
Ones64 == <<255, 255, 255, 255, 255, 255, 255, 255>>

W64(n) == to_le_bytes(n, 8)

\* x < y as unsigned integers: x - y borrows
ULess(x, y) == AddCarry(x, Complement(y), 1)[2] = 0

MAX_TEXT_SIZE == WSub(BSS_VIRTUAL_ADDRESS, TEXT_VIRTUAL_ADDRESS)
MAX_BSS_SIZE == WSub(WAdd(W64(1), MAX_VIRTUAL_ADDRESS), BSS_VIRTUAL_ADDRESS)

\* The signed value of a little-endian word when it lies in -2^23 .. 2^23 - 1,
\* and Huge otherwise (every quantity the program computes on is far smaller).
Huge == 1024 * 1048576
Val(x) ==
    LET low == x[1] + 256 * x[2] + 65536 * x[3]
    IN  IF \A i \in 4..Len(x) : x[i] = 0 /\ x[3] < 128 THEN low
        ELSE IF \A i \in 4..Len(x) : x[i] = 255 /\ x[3] >= 128 THEN low - 16777216
        ELSE Huge

\* A 4-byte little-endian signed integer (i32).
I32(b) == b[1] + 256 * b[2] + 65536 * b[3]
          + 16777216 * (IF b[4] >= 128 THEN b[4] - 256 ELSE b[4])

SignBit(x) == x[Len(x)] >= 128

(***************************************************************************)
(* ElfAssembler.                                                           *)
(***************************************************************************)
new ==
    [memory_allocated |-> 0, label_states |-> <<>>, machine_code |-> <<>>,
     panic |-> FALSE]

Unpopulated(patch_offsets) == [populated |-> FALSE, patch_offsets |-> patch_offsets]
Populated(destination) == [populated |-> TRUE, destination |-> destination]

Panic(a) == [a EXCEPT !.panic = TRUE]

extend(a, code) == [a EXCEPT !.machine_code = @ \o code]

\* instr!: name -> opcode bytes
INSTR ==
    [xor_r12_r12 |-> <<77, 49, 228>>,
     cmp_r10_r12 |-> <<77, 57, 226>>,
     mov_r12_rax |-> <<73, 137, 196>>,
     add_r15_rax |-> <<73, 1, 199>>,
     add_r8_r9 |-> <<77, 1, 200>>,
     add_rsi_r15 |-> <<76, 1, 254>>,
     cmovge_r8_r15 |-> <<77, 15, 77, 199>>,
     cmp_r10_r11 |-> <<77, 57, 218>>,
     cmp_r13_rbp |-> <<73, 57, 237>>,
     cmp_r15_r13 |-> <<77, 57, 239>>,
     dec_byte_ptr_rbx_plus_r8 |-> <<66, 254, 12, 3>>,
     inc_byte_ptr_rbx_plus_r8 |-> <<66, 254, 4, 3>>,
     inc_r10 |-> <<73, 255, 194>>,
     inc_r13 |-> <<73, 255, 197>>,
     mov_byte_ptr_rbx_plus_r8_r15b |-> <<70, 136, 60, 3>>,
     mov_byte_ptr_rsp_plus_r13_r15b |-> <<70, 136, 60, 44>>,
     mov_r15_r8 |-> <<77, 137, 199>>,
     mov_r15b_byte_ptr_rbx_plus_r8 |-> <<70, 138, 60, 3>>,
     mov_r15b_byte_ptr_r14_plus_r10 |-> <<71, 138, 60, 22>>,
     mov_r11_rax |-> <<73, 137, 195>>,
     mov_rdx_r12 |-> <<76, 137, 226>>,
     mov_rdx_r13 |-> <<76, 137, 234>>,
     mov_rsi_r14 |-> <<76, 137, 246>>,
     mov_rsi_rsp |-> <<72, 137, 230>>,
     sub_r15_r9 |-> <<77, 41, 207>>,
     sub_r8_r9 |-> <<77, 41, 200>>,
     sub_rdx_r15 |-> <<76, 41, 250>>,
     syscall |-> <<15, 5>>,
     xor_r10_r10 |-> <<77, 49, 210>>,
     xor_r11_r11 |-> <<77, 49, 219>>,
     xor_r13_r13 |-> <<77, 49, 237>>,
     xor_r15_r15 |-> <<77, 49, 255>>,
     xor_r8_r8 |-> <<77, 49, 192>>,
     xor_rax_rax |-> <<72, 49, 192>>,
     xor_rdi_rdi |-> <<72, 49, 255>>]

\* instr_imm!: name -> opcode bytes and operand width in bytes
INSTR_IMM ==
    [mov_rdx_u32 |-> [code |-> <<186>>, width |-> 4],
     mov_r13_u32 |-> [code |-> <<65, 189>>, width |-> 4],
     cmp_r13_u32 |-> [code |-> <<73, 129, 253>>, width |-> 4],
     cmp_rax_u32 |-> [code |-> <<72, 61>>, width |-> 4],
     add_byte_ptr_rbx_plus_r8_u8 |-> [code |-> <<66, 128, 4, 3>>, width |-> 1],
     add_r8_u32 |-> [code |-> <<73, 129, 192>>, width |-> 4],
     cmp_byte_ptr_rbx_plus_r8_u8 |-> [code |-> <<66, 128, 60, 3>>, width |-> 1],
     cmp_r15b_u8 |-> [code |-> <<65, 128, 255>>, width |-> 1],
     mov_r12_u64 |-> [code |-> <<73, 188>>, width |-> 8],
     mov_rbp_u64 |-> [code |-> <<72, 189>>, width |-> 8],
     mov_r9_u64 |-> [code |-> <<73, 185>>, width |-> 8],
     mov_rax_u32 |-> [code |-> <<184>>, width |-> 4],
     sub_r8_u32 |-> [code |-> <<73, 129, 232>>, width |-> 4],
     mov_rdi_u32 |-> [code |-> <<191>>, width |-> 4]]

\* instr_branch!: name -> opcode bytes
INSTR_BRANCH ==
    [je |-> <<15, 132>>,
     jg |-> <<15, 143>>,
     jge |-> <<15, 141>>,
     jnc |-> <<15, 131>>,
     jne |-> <<15, 133>>,
     jmp |-> <<233>>]

\* instr_mov_addr!: name -> opcode bytes
INSTR_MOV_ADDR ==
    [mov_rbx_addr |-> <<72, 187>>,
     mov_r14_addr |-> <<73, 190>>,
     mov_rsp_addr |-> <<72, 188>>]

instr(a, name) == extend(a, INSTR[name])

instr_imm(a, name, operand) ==
    extend(extend(a, INSTR_IMM[name].code),
           to_le_bytes(operand, INSTR_IMM[name].width))

instr_mov_addr(a, name, address) ==
    extend(extend(a, INSTR_MOV_ADDR[name]), WAdd(BSS_VIRTUAL_ADDRESS, W64(address)))

generate_branch_no_origin_adjust(a, label, code) ==
    LET state == a.label_states[label + 1]
        a1 == extend(a, code)
    IN  IF ~state.populated
        THEN [extend(a1, <<0, 0, 0, 0>>) EXCEPT
                 !.label_states[label + 1] =
                     Unpopulated(Append(state.patch_offsets, Len(a1.machine_code)))]
        ELSE LET origin == Len(a1.machine_code)
                 difference == origin - state.destination
             IN  IF ~(state.destination < origin + 4) \/ ~(difference <= I32_MAX)
                 THEN Panic(a1)
                 ELSE extend(a1, to_le_bytes(-difference, 4))

generate_branch(a, label, code) ==
    LET state == a.label_states[label + 1]
        a1 == extend(a, code)
    IN  IF ~state.populated
        THEN [extend(a1, <<0, 0, 0, 0>>) EXCEPT
                 !.label_states[label + 1] =
                     Unpopulated(Append(state.patch_offsets, Len(a1.machine_code)))]
        ELSE LET origin == Len(a1.machine_code) + 4
                 difference == origin - state.destination
             IN  IF ~(state.destination < origin) \/ ~(difference <= I32_MAX)
                 THEN Panic(a1)
                 ELSE extend(a1, to_le_bytes(-difference, 4))

instr_branch(a, name, label) == generate_branch(a, label, INSTR_BRANCH[name])

\* The assertion of allocate_memory, on 64-bit words.
allocation_fits(memory_allocated, size) ==
    ULess(size, WSub(MAX_BSS_SIZE, memory_allocated))

\* The assertion of assemble, on the 64-bit length of machine_code.
text_fits(length) == ~ULess(MAX_TEXT_SIZE, length)

allocate_memory(a, size) ==
    IF ~allocation_fits(W64(a.memory_allocated), W64(size))
    THEN Panic(a)
    ELSE [a EXCEPT !.memory_allocated = @ + size]

allocate_label(a) ==
    [a EXCEPT !.label_states = Append(@, Unpopulated(<<>>))]

\* The index allocate_label returns.
new_label(a) == Len(a.label_states)

\* machine_code with the 4 bytes at offset patch_offset replaced
copy_from_slice(machine_code, patch_offset, bytes) ==
    [i \in 1..Len(machine_code) |->
        IF i - 1 \in patch_offset..(patch_offset + 3)
        THEN bytes[i - patch_offset] ELSE machine_code[i]]

patch_slice(machine_code, patch_offset) ==
    SubSeq(machine_code, patch_offset + 1, patch_offset + 4)

\* One pass of label's loop over patch_offsets, from the i-th on.
RECURSIVE patch_all(_, _, _, _)
patch_all(a, patch_offsets, i, destination) ==
    IF a.panic \/ i > Len(patch_offsets) THEN a
    ELSE LET patch_offset == patch_offsets[i]
             origin == patch_offset + 4
             difference == destination - origin
         IN  IF ~(origin <= destination)
                \/ patch_slice(a.machine_code, patch_offset) # <<0, 0, 0, 0>>
                \/ ~(difference <= I32_MAX)
             THEN Panic(a)
             ELSE patch_all(
                    [a EXCEPT !.machine_code =
                        copy_from_slice(@, patch_offset, to_le_bytes(difference, 4))],
                    patch_offsets, i + 1, destination)

\* label without the check for a label that is already Populated.
label_again(a, l) ==
    LET state == a.label_states[l + 1]
        destination == Len(a.machine_code)
    IN  IF state.populated
        THEN [a EXCEPT !.label_states[l + 1] = Populated(destination)]
        ELSE LET a1 == patch_all(a, state.patch_offsets, 1, destination)
             IN  IF a1.panic THEN a1
                 ELSE [a1 EXCEPT !.label_states[l + 1] = Populated(destination)]

label(a, l) ==
    LET state == a.label_states[l + 1]
        destination == Len(a.machine_code)
    IN  IF state.populated THEN Panic(a)
        ELSE LET a1 == patch_all(a, state.patch_offsets, 1, destination)
             IN  IF a1.panic THEN a1
                 ELSE [a1 EXCEPT !.label_states[l + 1] = Populated(destination)]

(***************************************************************************)
(* The ELF image (elf.rs) and assemble.                                    *)
(***************************************************************************)
ELF_HEADER ==
    <<127, 69, 76, 70, 2, 1, 1, 0, 0, 0, 0, 0, 0, 0, 0, 0,
      2, 0, 62, 0, 1, 0, 0, 0, 198, 1, 0, 0, 0, 16, 0, 0,
      64, 0, 0, 0, 0, 0, 0, 0, 176, 0, 0, 0, 0, 0, 0, 0,
      0, 0, 0, 0, 64, 0, 56, 0, 2, 0, 64, 0, 4, 0, 3, 0>>

\* The text program header with a page-aligned virtual address.
TEXT_PROGRAM_HEADER_START_aligned ==
    <<1, 0, 0, 0, 5, 0, 0, 0, 198, 1, 0, 0, 0, 0, 0, 0,
      0, 0, 0, 0, 0, 16, 0, 0, 0, 0, 0, 0, 0, 0, 0, 0>>

TEXT_PROGRAM_HEADER_START ==
    <<1, 0, 0, 0, 5, 0, 0, 0, 198, 1, 0, 0, 0, 0, 0, 0,
      198, 1, 0, 0, 0, 16, 0, 0, 0, 0, 0, 0, 0, 0, 0, 0>>

TEXT_PROGRAM_HEADER_END ==
    <<0, 0, 0, 0, 0, 0, 0, 0>>

BSS_PROGRAM_HEADER_START ==
    <<1, 0, 0, 0, 6, 0, 0, 0, 0, 0, 0, 0, 0, 0, 0, 0,
      0, 0, 0, 0, 0, 96, 0, 0, 0, 0, 0, 0, 0, 0, 0, 0,
      0, 0, 0, 0, 0, 0, 0, 0>>

BSS_PROGRAM_HEADER_END ==
    <<0, 0, 0, 0, 0, 0, 0, 0>>

DUMMY_SECTION_HEADER ==
    <<0, 0, 0, 0, 0, 0, 0, 0, 0, 0, 0, 0, 0, 0, 0, 0,
      0, 0, 0, 0, 0, 0, 0, 0, 0, 0, 0, 0, 0, 0, 0, 0,
      0, 0, 0, 0, 0, 0, 0, 0, 0, 0, 0, 0, 0, 0, 0, 0,
      0, 0, 0, 0, 0, 0, 0, 0, 0, 0, 0, 0, 0, 0, 0, 0>>

TEXT_SECTION_HEADER_START ==
    <<1, 0, 0, 0, 1, 0, 0, 0, 6, 0, 0, 0, 0, 0, 0, 0,
      198, 1, 0, 0, 0, 16, 0, 0, 198, 1, 0, 0, 0, 0, 0, 0>>

TEXT_SECTION_HEADER_END ==
    <<0, 0, 0, 0, 0, 0, 0, 0, 0, 0, 0, 0, 0, 0, 0, 0,
      0, 0, 0, 0, 0, 0, 0, 0>>

BSS_SECTION_HEADER_START ==
    <<7, 0, 0, 0, 8, 0, 0, 0, 3, 0, 0, 0, 0, 0, 0, 0,
      0, 0, 0, 0, 0, 96, 0, 0, 0, 0, 0, 0, 0, 0, 0, 0>>

BSS_SECTION_HEADER_END ==
    <<0, 0, 0, 0, 0, 0, 0, 0, 0, 0, 0, 0, 0, 0, 0, 0,
      0, 0, 0, 0, 0, 0, 0, 0>>

STRING_TABLE_SECTION_HEADER ==
    <<12, 0, 0, 0, 3, 0, 0, 0, 0, 0, 0, 0, 0, 0, 0, 0,
      0, 0, 0, 0, 0, 0, 0, 0, 176, 1, 0, 0, 0, 0, 0, 0,
      22, 0, 0, 0, 0, 0, 0, 0, 0, 0, 0, 0, 0, 0, 0, 0,
      0, 0, 0, 0, 0, 0, 0, 0, 0, 0, 0, 0, 0, 0, 0, 0>>

STRING_TABLE_CONTENTS ==
    <<0, 46, 116, 101, 120, 116, 0, 46, 98, 115, 115, 0, 46, 115, 104, 115,
      116, 114, 116, 97, 98, 0>>

\* assemble with the two sizes exchanged in the section headers.
assemble_sizes_exchanged(a) ==
    IF ULess(MAX_TEXT_SIZE, W64(Len(a.machine_code))) THEN <<>>
    ELSE LET le_text_size == W64(Len(a.machine_code))
             le_bss_size == W64(a.memory_allocated)
         IN  ELF_HEADER
             \o TEXT_PROGRAM_HEADER_START \o le_text_size \o le_text_size
             \o TEXT_PROGRAM_HEADER_END
             \o BSS_PROGRAM_HEADER_START \o le_bss_size \o BSS_PROGRAM_HEADER_END
             \o DUMMY_SECTION_HEADER
             \o TEXT_SECTION_HEADER_START \o le_bss_size \o TEXT_SECTION_HEADER_END
             \o BSS_SECTION_HEADER_START \o le_text_size \o BSS_SECTION_HEADER_END
             \o STRING_TABLE_SECTION_HEADER
             \o STRING_TABLE_CONTENTS
             \o a.machine_code

\* The bytes assemble writes; <<>> when its assertion fails.
assemble(a) ==
    IF ~text_fits(W64(Len(a.machine_code))) THEN <<>>
    ELSE LET le_text_size == W64(Len(a.machine_code))
             le_bss_size == W64(a.memory_allocated)
         IN  ELF_HEADER
             \o TEXT_PROGRAM_HEADER_START \o le_text_size \o le_text_size
             \o TEXT_PROGRAM_HEADER_END
             \o BSS_PROGRAM_HEADER_START \o le_bss_size \o BSS_PROGRAM_HEADER_END
             \o DUMMY_SECTION_HEADER
             \o TEXT_SECTION_HEADER_START \o le_text_size \o TEXT_SECTION_HEADER_END
             \o BSS_SECTION_HEADER_START \o le_bss_size \o BSS_SECTION_HEADER_END
             \o STRING_TABLE_SECTION_HEADER
             \o STRING_TABLE_CONTENTS
             \o a.machine_code

(***************************************************************************)
(* The code generator (compiler.rs).  A token is [type, value]; value is   *)
(* the shift of a Move and the increment of an Add, and 0 otherwise.       *)
(***************************************************************************)
Move(shift) == [type |-> "Move", value |-> shift]
Add(value) == [type |-> "Add", value |-> value]
ReadChar == [type |-> "ReadChar", value |-> 0]
WriteChar == [type |-> "WriteChar", value |-> 0]
LoopStart == [type |-> "LoopStart", value |-> 0]
LoopEnd == [type |-> "LoopEnd", value |-> 0]

\* n > u32::max_value(), without leaving 32 bits
AboveU32Max(n) == n \div 65536 > 65535

\* Rust's % on signed integers: the remainder has the sign of the dividend.
rem(a, b) == IF a >= 0 THEN a % b ELSE -((-a) % b)

emit_exit(a, code) ==
    LET a1 == instr_imm(a, "mov_rax_u32", 60)
        a2 == IF code = 0 THEN instr(a1, "xor_rdi_rdi")
              ELSE instr_imm(a1, "mov_rdi_u32", code)
    IN  instr(a2, "syscall")

\* emit_flush with every write starting at the first byte of the buffer
emit_flush_from_start(a) ==
    LET a1 == instr(a, "xor_r15_r15")
        loop_start == new_label(a1)
        a2 == label(allocate_label(a1), loop_start)
        a3 == instr_imm(a2, "mov_rax_u32", 1)
        a4 == instr_imm(a3, "mov_rdi_u32", 1)
        a5 == instr(instr(a4, "mov_rsi_rsp"), "mov_rsi_rsp")
        a6 == instr(instr(a5, "mov_rdx_r13"), "sub_rdx_r15")
        a7 == instr(a6, "syscall")
        okay == new_label(a7)
        a8 == instr_imm(allocate_label(a7), "cmp_rax_u32", 0)
        a9 == instr_branch(a8, "jg", okay)
        a10 == emit_exit(a9, 1)
        a11 == label(a10, okay)
        a12 == instr(instr(a11, "add_r15_rax"), "cmp_r15_r13")
        a13 == instr_branch(a12, "jne", loop_start)
    IN  instr(a13, "xor_r13_r13")

emit_flush(a) ==
    LET a1 == instr(a, "xor_r15_r15")
        loop_start == new_label(a1)
        a2 == label(allocate_label(a1), loop_start)
        a3 == instr_imm(a2, "mov_rax_u32", 1)
        a4 == instr_imm(a3, "mov_rdi_u32", 1)
        a5 == instr(instr(a4, "mov_rsi_rsp"), "add_rsi_r15")
        a6 == instr(instr(a5, "mov_rdx_r13"), "sub_rdx_r15")
        a7 == instr(a6, "syscall")
        okay == new_label(a7)
        a8 == instr_imm(allocate_label(a7), "cmp_rax_u32", 0)
        a9 == instr_branch(a8, "jg", okay)
        a10 == emit_exit(a9, 1)
        a11 == label(a10, okay)
        a12 == instr(instr(a11, "add_r15_rax"), "cmp_r15_r13")
        a13 == instr_branch(a12, "jne", loop_start)
    IN  instr(a13, "xor_r13_r13")

\* compile, lines 27-42: the three regions and the register set-up
prologue(a) ==
    LET tape == a.memory_allocated
        a1 == allocate_memory(a, TAPE_LENGTH)
        input_buffer == a1.memory_allocated
        a2 == allocate_memory(a1, INPUT_BUFFER_SIZE)
        output_buffer == a2.memory_allocated
        a3 == allocate_memory(a2, OUTPUT_BUFFER_SIZE)
        a4 == instr_mov_addr(a3, "mov_rbx_addr", tape)
        a5 == instr_mov_addr(a4, "mov_r14_addr", input_buffer)
        a6 == instr_mov_addr(a5, "mov_rsp_addr", output_buffer)
        a7 == instr(a6, "xor_r8_r8")
        a8 == instr_imm(a7, "mov_r9_u64", TAPE_LENGTH)
        a9 == instr(a8, "xor_r10_r10")
        a10 == instr(a9, "xor_r12_r12")
    IN  instr(a10, "xor_r13_r13")

\* compile's Move arm without the code that wraps the position
compile_Move_no_wrap(a, shift) ==
    IF shift >= 0
    THEN IF shift % TAPE_LENGTH = 0 THEN a
         ELSE instr_imm(a, "add_r8_u32", shift % TAPE_LENGTH)
    ELSE IF (-shift) % TAPE_LENGTH = 0 THEN a
         ELSE instr_imm(a, "sub_r8_u32", (-shift) % TAPE_LENGTH)

compile_Move(a, shift) ==
    IF shift >= 0
    THEN IF AboveU32Max(shift) THEN Panic(a)
         ELSE LET right_shift == shift % TAPE_LENGTH
              IN  IF right_shift = 0 THEN a
                  ELSE LET a1 == instr_imm(a, "add_r8_u32", right_shift)
                           position_wrapped == new_label(a1)
                           a2 == allocate_label(a1)
                           a3 == IF W64(TAPE_LENGTH)[8] >= 128   \* TAPE_LENGTH >> 63 == 1
                                 THEN LET did_not_overflow == new_label(a2)
                                          b1 == allocate_label(a2)
                                          b2 == instr_branch(b1, "jnc", did_not_overflow)
                                          b3 == instr(b2, "sub_r8_r9")
                                          b4 == instr_branch(b3, "jmp", position_wrapped)
                                      IN  label(b4, did_not_overflow)
                                 ELSE a2
                           a4 == instr(a3, "mov_r15_r8")
                           a5 == instr(a4, "sub_r15_r9")
                           a6 == instr(a5, "cmovge_r8_r15")
                       IN  label(a6, position_wrapped)
    ELSE IF AboveU32Max(-shift) THEN Panic(a)
         ELSE LET left_shift == (-shift) % TAPE_LENGTH
              IN  IF left_shift = 0 THEN a
                  ELSE LET a1 == instr_imm(a, "sub_r8_u32", left_shift)
                           position_wrapped == new_label(a1)
                           a2 == allocate_label(a1)
                           a3 == instr_branch(a2, "jg", position_wrapped)
                           a4 == instr(a3, "add_r8_r9")
                       IN  label(a4, position_wrapped)

\* compile's Add arm with the increment and the decrement exchanged
compile_Add_swapped(a, value) ==
    LET wrapped_value == rem(rem(value, 256) + 256, 256)
    IN  CASE wrapped_value = 0 -> a
          [] wrapped_value = 1 -> instr(a, "dec_byte_ptr_rbx_plus_r8")
          [] wrapped_value = 255 -> instr(a, "inc_byte_ptr_rbx_plus_r8")
          [] OTHER -> instr_imm(a, "add_byte_ptr_rbx_plus_r8_u8", wrapped_value)

compile_Add(a, value) ==
    LET wrapped_value == rem(rem(value, 256) + 256, 256)
    IN  CASE wrapped_value = 0 -> a
          [] wrapped_value = 1 -> instr(a, "inc_byte_ptr_rbx_plus_r8")
          [] wrapped_value = 255 -> instr(a, "dec_byte_ptr_rbx_plus_r8")
          [] OTHER -> instr_imm(a, "add_byte_ptr_rbx_plus_r8_u8", wrapped_value)

\* compile's ReadChar arm always skipping the flush before the read
compile_ReadChar_no_flush(a) ==
    LET data_in_buffer == new_label(a)
        a1 == instr(allocate_label(a), "cmp_r10_r12")
        a2 == instr_branch(a1, "jne", data_in_buffer)
        skip_flush == new_label(a2)
        a3 == instr_imm(allocate_label(a2), "cmp_r13_u32", 0)
        a4 == instr_branch(a3, "jmp", skip_flush)
        a5 == label(emit_flush(a4), skip_flush)
        a6 == instr(instr(a5, "xor_rax_rax"), "xor_rdi_rdi")
        a7 == instr(a6, "mov_rsi_r14")
        a8 == instr_imm(a7, "mov_rdx_u32", INPUT_BUFFER_SIZE)
        a9 == instr(a8, "syscall")
        okay == new_label(a9)
        a10 == instr_imm(allocate_label(a9), "cmp_rax_u32", 0)
        a11 == instr_branch(a10, "jg", okay)
        a12 == label(emit_exit(a11, 2), okay)
        a13 == instr(instr(a12, "mov_r12_rax"), "xor_r10_r10")
        a14 == label(a13, data_in_buffer)
        a15 == instr(a14, "mov_r15b_byte_ptr_r14_plus_r10")
        a16 == instr(a15, "mov_byte_ptr_rbx_plus_r8_r15b")
    IN  instr(a16, "inc_r10")

compile_ReadChar(a) ==
    LET data_in_buffer == new_label(a)
        a1 == instr(allocate_label(a), "cmp_r10_r12")
        a2 == instr_branch(a1, "jne", data_in_buffer)
        \* Flush any buffered output
        skip_flush == new_label(a2)
        a3 == instr_imm(allocate_label(a2), "cmp_r13_u32", 0)
        a4 == instr_branch(a3, "je", skip_flush)
        a5 == label(emit_flush(a4), skip_flush)
        \* Read into the input buffer
        a6 == instr(instr(a5, "xor_rax_rax"), "xor_rdi_rdi")
        a7 == instr(a6, "mov_rsi_r14")
        a8 == instr_imm(a7, "mov_rdx_u32", INPUT_BUFFER_SIZE)
        a9 == instr(a8, "syscall")
        okay == new_label(a9)
        a10 == instr_imm(allocate_label(a9), "cmp_rax_u32", 0)
        a11 == instr_branch(a10, "jg", okay)
        a12 == label(emit_exit(a11, 2), okay)
        a13 == instr(instr(a12, "mov_r12_rax"), "xor_r10_r10")
        a14 == label(a13, data_in_buffer)
        \* Copy a byte from the input buffer to the tape
        a15 == instr(a14, "mov_r15b_byte_ptr_r14_plus_r10")
        a16 == instr(a15, "mov_byte_ptr_rbx_plus_r8_r15b")
    IN  instr(a16, "inc_r10")

\* compile's WriteChar arm comparing the byte with a carriage return
compile_WriteChar_cr(a) ==
    LET a1 == instr(a, "mov_r15b_byte_ptr_rbx_plus_r8")
        a2 == instr(a1, "mov_byte_ptr_rsp_plus_r13_r15b")
        a3 == instr(a2, "inc_r13")
        flush == new_label(a3)
        a4 == allocate_label(a3)
        done == new_label(a4)
        a5 == allocate_label(a4)
        a6 == instr_imm(a5, "cmp_r15b_u8", 13)
        a7 == instr_branch(a6, "je", flush)
        a8 == instr_imm(a7, "cmp_r13_u32", OUTPUT_BUFFER_SIZE)
        a9 == instr_branch(a8, "jne", done)
        a10 == label(a9, flush)
        a11 == emit_flush(a10)
    IN  label(a11, done)

compile_WriteChar(a) ==
    LET a1 == instr(a, "mov_r15b_byte_ptr_rbx_plus_r8")
        a2 == instr(a1, "mov_byte_ptr_rsp_plus_r13_r15b")
        a3 == instr(a2, "inc_r13")
        flush == new_label(a3)
        a4 == allocate_label(a3)
        done == new_label(a4)
        a5 == allocate_label(a4)
        \* Flush output buffer if character was a newline
        a6 == instr_imm(a5, "cmp_r15b_u8", 10)
        a7 == instr_branch(a6, "je", flush)
        \* Skip flush if the character was not a newline and the buffer isn't full
        a8 == instr_imm(a7, "cmp_r13_u32", OUTPUT_BUFFER_SIZE)
        a9 == instr_branch(a8, "jne", done)
        a10 == label(a9, flush)
        a11 == emit_flush(a10)
    IN  label(a11, done)

\* LoopStart and LoopEnd also work on the loop stack: the result is
\* [asm, loop_stack].
compile_LoopStart(a, stack) ==
    LET start_label == new_label(a)
        a1 == allocate_label(a)
        end_label == new_label(a1)
        a2 == allocate_label(a1)
        a3 == instr_imm(a2, "cmp_byte_ptr_rbx_plus_r8_u8", 0)
        a4 == instr_branch(a3, "je", end_label)
    IN  [asm |-> label(a4, start_label),
         loop_stack |-> Append(stack, <<start_label, end_label>>)]

\* compile's LoopEnd arm taking the oldest pair of the stack
compile_LoopEnd_fifo(a, stack) ==
    IF stack = <<>> THEN [asm |-> Panic(a), loop_stack |-> stack]
    ELSE LET start_label == stack[1][1]
             end_label == stack[1][2]
             a1 == instr_imm(a, "cmp_byte_ptr_rbx_plus_r8_u8", 0)
             a2 == instr_branch(a1, "jne", start_label)
         IN  [asm |-> label(a2, end_label), loop_stack |-> Tail(stack)]

compile_LoopEnd(a, stack) ==
    IF stack = <<>> THEN [asm |-> Panic(a), loop_stack |-> stack]   \* pop().unwrap()
    ELSE LET start_label == stack[Len(stack)][1]
             end_label == stack[Len(stack)][2]
             a1 == instr_imm(a, "cmp_byte_ptr_rbx_plus_r8_u8", 0)
             a2 == instr_branch(a1, "jne", start_label)
         IN  [asm |-> label(a2, end_label),
              loop_stack |-> SubSeq(stack, 1, Len(stack) - 1)]

\* The epilogue flushing when the cursor is zero
epilogue_jne(a, stack) ==
    IF Len(stack) # 0 THEN Panic(a)
    ELSE LET skip_flush == new_label(a)
             a1 == instr_imm(allocate_label(a), "cmp_r13_u32", 0)
             a2 == instr_branch(a1, "jne", skip_flush)
             a3 == label(emit_flush(a2), skip_flush)
         IN  emit_exit(a3, 0)

\* The epilogue without the assertion on the loop stack.
epilogue_unchecked(a, stack) ==
    LET skip_flush == new_label(a)
        a1 == instr_imm(allocate_label(a), "cmp_r13_u32", 0)
        a2 == instr_branch(a1, "je", skip_flush)
        a3 == label(emit_flush(a2), skip_flush)
    IN  emit_exit(a3, 0)

\* compile, lines 231-243: after EndOfFile
epilogue(a, stack) ==
    IF Len(stack) # 0 THEN Panic(a)
    ELSE LET skip_flush == new_label(a)
             a1 == instr_imm(allocate_label(a), "cmp_r13_u32", 0)
             a2 == instr_branch(a1, "je", skip_flush)
             a3 == label(emit_flush(a2), skip_flush)
         IN  emit_exit(a3, 0)

(***************************************************************************)
(* The processor.  The emitted bytes are decoded with the assembler's own  *)
(* tables; each instruction acts on the registers, the flags and the       *)
(* zero-fill segment as the x86-64 instruction with that encoding does.    *)
(***************************************************************************)
Matches(code, at, bytes) ==
    /\ at + Len(bytes) <= Len(code)
    /\ \A i \in 1..Len(bytes) : code[at + i] = bytes[i]

\* The encodings of the four tables, each with the width of its operand and
\* the rank of its table, and the same grouped by their first byte.
Encodings ==
    {[name |-> n, code |-> INSTR[n], width |-> 0, rank |-> 1] : n \in DOMAIN INSTR}
    \cup {[name |-> n, code |-> INSTR_IMM[n].code, width |-> INSTR_IMM[n].width,
           rank |-> 2] : n \in DOMAIN INSTR_IMM}
    \cup {[name |-> n, code |-> INSTR_BRANCH[n], width |-> 4, rank |-> 3] :
             n \in DOMAIN INSTR_BRANCH}
    \cup {[name |-> n, code |-> INSTR_MOV_ADDR[n], width |-> 8, rank |-> 4] :
             n \in DOMAIN INSTR_MOV_ADDR}

EncodingsFrom == [b \in Byte |-> {e \in Encodings : e.code[1] = b}]

\* The instruction encoded at offset at of code, with its operand:
\* [name, operand, size].
Decode(code, at) ==
    LET found == IF at < 0 \/ at >= Len(code) THEN {}
                 ELSE {e \in EncodingsFrom[code[at + 1]] :
                          /\ Matches(code, at, e.code)
                          /\ at + Len(e.code) + e.width <= Len(code)}
    IN  IF found = {} THEN [name |-> "invalid", operand |-> <<>>, size |-> 0]
        ELSE LET e == CHOOSE e \in found : \A f \in found : e.rank <= f.rank
             IN  [name |-> e.name,
                  operand |-> SubSeq(code, at + Len(e.code) + 1,
                                     at + Len(e.code) + e.width),
                  size |-> Len(e.code) + e.width]

\* Registers at process start: Linux clears the general registers; the stack
\* pointer it sets is overwritten by the prologue before any use.
PowerOn ==
    [rax |-> Zero64, rbx |-> Zero64, rdx |-> Zero64, rsi |-> Zero64,
     rdi |-> Zero64, rsp |-> Zero64, r8 |-> Zero64, r9 |-> Zero64,
     r10 |-> Zero64, r12 |-> Zero64, r13 |-> Zero64, r14 |-> Zero64,
     r15 |-> Zero64,
     zf |-> FALSE, sf |-> FALSE, of |-> FALSE, cf |-> FALSE,
     rip |-> 0]

\* x + y and x - y on words of equal length, with the flags they set.
AluAdd(x, y) ==
    LET r == AddCarry(x, y, 0)
    IN  [res |-> r[1], zf |-> \A i \in 1..Len(x) : r[1][i] = 0,
         sf |-> SignBit(r[1]),
         of |-> SignBit(x) = SignBit(y) /\ SignBit(r[1]) # SignBit(x),
         cf |-> r[2] = 1]

AluSub(x, y) ==
    LET r == AddCarry(x, Complement(y), 1)
    IN  [res |-> r[1], zf |-> \A i \in 1..Len(x) : r[1][i] = 0,
         sf |-> SignBit(r[1]),
         of |-> SignBit(x) # SignBit(y) /\ SignBit(r[1]) # SignBit(x),
         cf |-> r[2] = 0]

SetFlags(c, r) == [c EXCEPT !.zf = r.zf, !.sf = r.sf, !.of = r.of, !.cf = r.cf]
\* inc and dec leave the carry flag alone
SetFlagsNoCarry(c, r) == [c EXCEPT !.zf = r.zf, !.sf = r.sf, !.of = r.of]

\* imm32 sign-extended to 64 bits, imm32 zero-extended to 64 bits
SignExtend(b) ==
    b \o (IF SignBit(b) THEN <<255, 255, 255, 255>> ELSE <<0, 0, 0, 0>>)
ZeroExtend(b) == b \o <<0, 0, 0, 0>>

\* What the kernel takes from an image when it starts it: the entry point,
\* the first program header (file offset, address and size of the text) and
\* the second (address and size of the zero-fill segment).
Field(image, at, width) == SubSeq(image, at + 1, at + width)
Entry(image) == Field(image, 24, 8)
TextOffset(image) == Val(Field(image, 64 + 8, 8))
TextAddress(image) == Field(image, 64 + 16, 8)
TextSize(image) == Val(Field(image, 64 + 32, 8))
Text(image) == Field(image, TextOffset(image), TextSize(image))
\* The instruction at offset at of the text (the image ends with the text)
Fetch(image, at) ==
    LET d == Decode(image, TextOffset(image) + at)
    IN  IF at >= 0 /\ at < TextSize(image) THEN d
        ELSE [name |-> "invalid", operand |-> <<>>, size |-> 0]
BssAddress(image) == Field(image, 64 + 56 + 16, 8)
BssSize(image) == Field(image, 64 + 56 + 40, 8)

\* Offset of a virtual address in the zero-fill segment, or -1 when the
\* address is outside it.
SegmentOffset(image, address) ==
    LET off == WSub(address, BssAddress(image))
    IN  IF ULess(off, BssSize(image)) THEN Val(off) ELSE -1

Load(m, off) == IF off \in DOMAIN m THEN m[off] ELSE 0
Store(m, off, byte) ==
    [o \in (DOMAIN m \cup {off}) \ (IF byte = 0 THEN {off} ELSE {}) |->
        IF o = off THEN byte ELSE m[o]]

LowByte(x) == x[1]
SetLowByte(x, byte) == [x EXCEPT ![1] = byte]

\* The memory operand of an instruction, as an offset in the segment
\* (-1: outside), or -2 when the instruction has none.
MemoryOperand(image, c, name) ==
    CASE name \in {"inc_byte_ptr_rbx_plus_r8", "dec_byte_ptr_rbx_plus_r8",
                   "add_byte_ptr_rbx_plus_r8_u8", "cmp_byte_ptr_rbx_plus_r8_u8",
                   "mov_byte_ptr_rbx_plus_r8_r15b", "mov_r15b_byte_ptr_rbx_plus_r8"}
            -> SegmentOffset(image, WAdd(c.rbx, c.r8))
      [] name = "mov_byte_ptr_rsp_plus_r13_r15b"
            -> SegmentOffset(image, WAdd(c.rsp, c.r13))
      [] name = "mov_r15b_byte_ptr_r14_plus_r10"
            -> SegmentOffset(image, WAdd(c.r14, c.r10))
      [] OTHER -> -2

Taken(c, name) ==
    CASE name = "je" -> c.zf
      [] name = "jne" -> ~c.zf
      [] name = "jg" -> ~c.zf /\ c.sf = c.of
      [] name = "jge" -> c.sf = c.of
      [] name = "jnc" -> ~c.cf
      [] name = "jmp" -> TRUE

\* One instruction other than syscall: the new [cpu, mem].  ea is the
\* instruction's memory operand (an offset inside the segment).
Execute(c, m, d, ea) ==
    LET n == d.name
        next == [c EXCEPT !.rip = @ + d.size]
        xor(reg) == [SetFlags(next, [zf |-> TRUE, sf |-> FALSE, of |-> FALSE,
                                     cf |-> FALSE]) EXCEPT ![reg] = Zero64]
        add(reg, y) == LET r == AluAdd(c[reg], y)
                       IN  [SetFlags(next, r) EXCEPT ![reg] = r.res]
        sub(reg, y) == LET r == AluSub(c[reg], y)
                       IN  [SetFlags(next, r) EXCEPT ![reg] = r.res]
        cmp(x, y) == SetFlags(next, AluSub(x, y))
        inc(reg) == LET r == AluAdd(c[reg], W64(1))
                    IN  [SetFlagsNoCarry(next, r) EXCEPT ![reg] = r.res]
        mov(reg, x) == [next EXCEPT ![reg] = x]
        only(c1) == [cpu |-> c1, mem |-> m]
        cell == <<Load(m, ea)>>
    IN  CASE n = "xor_r8_r8" -> only(xor("r8"))
          [] n = "xor_r10_r10" -> only(xor("r10"))
          [] n = "xor_r12_r12" -> only(xor("r12"))
          [] n = "xor_r13_r13" -> only(xor("r13"))
          [] n = "xor_r15_r15" -> only(xor("r15"))
          [] n = "xor_rax_rax" -> only(xor("rax"))
          [] n = "xor_rdi_rdi" -> only(xor("rdi"))
          [] n = "mov_rbx_addr" -> only(mov("rbx", d.operand))
          [] n = "mov_r14_addr" -> only(mov("r14", d.operand))
          [] n = "mov_rsp_addr" -> only(mov("rsp", d.operand))
          [] n = "mov_r9_u64" -> only(mov("r9", d.operand))
          [] n = "mov_rax_u32" -> only(mov("rax", ZeroExtend(d.operand)))
          [] n = "mov_rdi_u32" -> only(mov("rdi", ZeroExtend(d.operand)))
          [] n = "mov_rdx_u32" -> only(mov("rdx", ZeroExtend(d.operand)))
          [] n = "mov_r15_r8" -> only(mov("r15", c.r8))
          [] n = "mov_r12_rax" -> only(mov("r12", c.rax))
          [] n = "mov_rsi_r14" -> only(mov("rsi", c.r14))
          [] n = "mov_rsi_rsp" -> only(mov("rsi", c.rsp))
          [] n = "mov_rdx_r13" -> only(mov("rdx", c.r13))
          [] n = "add_r8_u32" -> only(add("r8", SignExtend(d.operand)))
          [] n = "sub_r8_u32" -> only(sub("r8", SignExtend(d.operand)))
          [] n = "add_r8_r9" -> only(add("r8", c.r9))
          [] n = "add_r15_rax" -> only(add("r15", c.rax))
          [] n = "add_rsi_r15" -> only(add("rsi", c.r15))
          [] n = "sub_r15_r9" -> only(sub("r15", c.r9))
          [] n = "sub_r8_r9" -> only(sub("r8", c.r9))
          [] n = "sub_rdx_r15" -> only(sub("rdx", c.r15))
          [] n = "cmp_r10_r12" -> only(cmp(c.r10, c.r12))
          [] n = "cmp_r15_r13" -> only(cmp(c.r15, c.r13))
          [] n = "cmp_r13_u32" -> only(cmp(c.r13, SignExtend(d.operand)))
          [] n = "cmp_rax_u32" -> only(cmp(c.rax, SignExtend(d.operand)))
          [] n = "cmp_r15b_u8" -> only(cmp(<<LowByte(c.r15)>>, d.operand))
          [] n = "cmovge_r8_r15" ->
                only(IF c.sf = c.of THEN mov("r8", c.r15) ELSE next)
          [] n = "inc_r10" -> only(inc("r10"))
          [] n = "inc_r13" -> only(inc("r13"))
          [] n = "inc_byte_ptr_rbx_plus_r8" ->
                LET r == AluAdd(cell, <<1>>)
                IN  [cpu |-> SetFlagsNoCarry(next, r), mem |-> Store(m, ea, r.res[1])]
          [] n = "dec_byte_ptr_rbx_plus_r8" ->
                LET r == AluSub(cell, <<1>>)
                IN  [cpu |-> SetFlagsNoCarry(next, r), mem |-> Store(m, ea, r.res[1])]
          [] n = "add_byte_ptr_rbx_plus_r8_u8" ->
                LET r == AluAdd(cell, d.operand)
                IN  [cpu |-> SetFlags(next, r), mem |-> Store(m, ea, r.res[1])]
          [] n = "cmp_byte_ptr_rbx_plus_r8_u8" -> only(cmp(cell, d.operand))
          [] n \in {"mov_r15b_byte_ptr_rbx_plus_r8", "mov_r15b_byte_ptr_r14_plus_r10"} ->
                only(mov("r15", SetLowByte(c.r15, cell[1])))
          [] n \in {"mov_byte_ptr_rbx_plus_r8_r15b", "mov_byte_ptr_rsp_plus_r13_r15b"} ->
                [cpu |-> next, mem |-> Store(m, ea, LowByte(c.r15))]
          [] n \in DOMAIN INSTR_BRANCH ->
                only(IF Taken(c, n)
                     THEN [c EXCEPT !.rip = @ + d.size + I32(d.operand)]
                     ELSE next)

\* The instructions Execute gives a meaning to.
Executable ==
    {"xor_r8_r8", "xor_r10_r10", "xor_r12_r12", "xor_r13_r13", "xor_r15_r15",
     "xor_rax_rax", "xor_rdi_rdi", "mov_rbx_addr", "mov_r14_addr", "mov_rsp_addr",
     "mov_r9_u64", "mov_rax_u32", "mov_rdi_u32", "mov_rdx_u32", "mov_r15_r8",
     "mov_r12_rax", "mov_rsi_r14", "mov_rsi_rsp", "mov_rdx_r13", "add_r8_u32",
     "sub_r8_u32", "add_r8_r9", "add_r15_rax", "add_rsi_r15", "sub_r15_r9",
     "sub_r8_r9", "sub_rdx_r15", "cmp_r10_r12", "cmp_r15_r13", "cmp_r13_u32",
     "cmp_rax_u32", "cmp_r15b_u8", "cmovge_r8_r15", "inc_r10", "inc_r13",
     "inc_byte_ptr_rbx_plus_r8", "dec_byte_ptr_rbx_plus_r8",
     "add_byte_ptr_rbx_plus_r8_u8", "cmp_byte_ptr_rbx_plus_r8_u8",
     "mov_r15b_byte_ptr_rbx_plus_r8", "mov_r15b_byte_ptr_r14_plus_r10",
     "mov_byte_ptr_rbx_plus_r8_r15b", "mov_byte_ptr_rsp_plus_r13_r15b"}
    \cup DOMAIN INSTR_BRANCH

(***************************************************************************)
(* Bounds of the model.                                                    *)
(***************************************************************************)
MaxLabels == 2      \* labels allocated in a free sequence of assembler calls
MaxCode == 14       \* bytes emitted in a free sequence of assembler calls
MaxOps == 2         \* length of the token sequences that are tried exhaustively
MaxOut == 20        \* bytes standard output accepts before writes fail
MaxDelta == 2       \* distance of the sampled positions, shifts and increments
                    \* from the boundaries (0, the tape length, 256)
MaxRegions == 3     \* calls of allocate_memory in a sequence next to the limit
MaxSource == 4      \* length of the source texts that are tried exhaustively

(***************************************************************************)
(* Values of the variables a specification does not use.                   *)
(***************************************************************************)
NoCompile ==
    loop_stack = <<>> /\ tokens = <<>> /\ pos = 0 /\ starts = <<>> /\ output = <<>>
NoProcess ==
    /\ cpu = PowerOn /\ mem = <<>> /\ stdin = <<>> /\ stdout = <<>>
    /\ status = "none" /\ exit_code = -1 /\ input = <<>>
    /\ last_io = [nr |-> -1, ret |-> 0] /\ ref = <<>>

NoParse == source = <<>> /\ parser = <<>> /\ parsed = <<>>
NoLimits == limits = <<>>

(***************************************************************************)
(* SpecAsm: any sequence of calls of the assembler's label interface.      *)
(***************************************************************************)
InitAsm ==
    /\ asm = new
    /\ phase = "asm"
    /\ branches = {}
    /\ NoCompile
    /\ NoProcess
    /\ NoParse /\ NoLimits

AsmAllocateLabel ==
    /\ phase = "asm" /\ ~asm.panic
    /\ Len(asm.label_states) < MaxLabels
    /\ asm' = allocate_label(asm)
    /\ UNCHANGED <<loop_stack, pos, starts, output, procVars, tokens, input, frontVars, limits,
                   phase, branches, ref>>

AsmBranch ==
    /\ phase = "asm" /\ ~asm.panic
    /\ \E name \in DOMAIN INSTR_BRANCH, l \in 0..(Len(asm.label_states) - 1) :
          /\ Len(asm.machine_code) + Len(INSTR_BRANCH[name]) + 4 <= MaxCode
          /\ asm' = instr_branch(asm, name, l)
          /\ branches' = branches \cup
                {[site |-> Len(asm.machine_code) + Len(INSTR_BRANCH[name]),
                  label |-> l]}
    /\ UNCHANGED <<loop_stack, pos, starts, output, procVars, tokens, input, frontVars, limits,
                   phase, ref>>

AsmInstr ==
    /\ phase = "asm" /\ ~asm.panic
    /\ Len(asm.machine_code) + 2 <= MaxCode
    /\ asm' = instr(asm, "syscall")
    /\ UNCHANGED <<loop_stack, pos, starts, output, procVars, tokens, input, frontVars, limits,
                   phase, branches, ref>>

AsmLabel ==
    /\ phase = "asm" /\ ~asm.panic
    /\ \E l \in 0..(Len(asm.label_states) - 1) : asm' = label(asm, l)
    /\ UNCHANGED <<loop_stack, pos, starts, output, procVars, tokens, input, frontVars, limits,
                   phase, branches, ref>>

NextAsm == AsmAllocateLabel \/ AsmBranch \/ AsmInstr \/ AsmLabel

SpecAsm == InitAsm /\ [][NextAsm]_vars

\* The displacement stored at a patch site.
Displacement(site) == I32(patch_slice(asm.machine_code, site))

\* C2: every branch to a label that has been defined holds, at its patch
\* site s, a displacement d with s + 4 + d = the offset the label was defined at.
BranchesResolve ==
    \A b \in branches :
        asm.label_states[b.label + 1].populated =>
            b.site + 4 + Displacement(b.site)
                = asm.label_states[b.label + 1].destination

\* A forward and a backward branch, both to defined labels.
ForwardAndBackwardResolved ==
    /\ \A l \in 1..Len(asm.label_states) : asm.label_states[l].populated
    /\ \E b1, b2 \in branches :
          /\ Displacement(b1.site) > 0
          /\ Displacement(b2.site) < 0

\* C12: label() on a Populated label panics and changes nothing else; on
\* an Unpopulated label it succeeds and leaves the label Populated at the
\* current end of machine_code.  The patch sites of an Unpopulated label hold
\* the four zero bytes (so the placeholder assertion has nothing to reject),
\* and once the label of a patch site is Populated the site's bytes and the
\* label's state never change again: no patch site is rewritten twice.
LabelDefinesOnce ==
    /\ [](~asm.panic =>
            \A b \in branches :
                ~asm.label_states[b.label + 1].populated
                    => patch_slice(asm.machine_code, b.site) = <<0, 0, 0, 0>>)
    /\ [][\A l \in 0..(Len(asm.label_states) - 1) :
            (asm' = label(asm, l) /\ asm' # asm) =>
                IF asm.label_states[l + 1].populated
                THEN asm' = Panic(asm)
                ELSE /\ ~asm'.panic
                     /\ asm'.label_states[l + 1]
                            = Populated(Len(asm.machine_code))
                     /\ Len(asm'.machine_code) = Len(asm.machine_code)]_vars
    /\ [][\A b \in branches :
            asm.label_states[b.label + 1].populated =>
                /\ patch_slice(asm'.machine_code, b.site)
                        = patch_slice(asm.machine_code, b.site)
                /\ asm'.label_states[b.label + 1]
                        = asm.label_states[b.label + 1]]_vars

\* A label with a patched forward branch has been defined a second time.
RedefinitionPanicked ==
    /\ asm.panic
    /\ \E b \in branches :
          /\ asm.label_states[b.label + 1].populated
          /\ Displacement(b.site) > 0

(***************************************************************************)
(* Spec: compile a token sequence, start the image, run it against an      *)
(* environment that answers its system calls, and - after a normal exit -  *)
(* run the reference interpreter on the same tokens and input.             *)
(***************************************************************************)
Seqs(S, n) == UNION {[1..k -> S] : k \in 0..n}

Alphabet ==
    {Move(1), Move(-1), Add(1), Add(-1), ReadChar, WriteChar, LoopStart, LoopEnd}

\* Longer programs: +[.]  LF.  +[[-]]  ,[.,]  +>+<.  ,>,.<.  +.>++.,.
LongPrograms ==
    {<<Add(1), LoopStart, WriteChar, LoopEnd>>,
     <<Add(10), WriteChar>>,
     <<Add(1), LoopStart, LoopStart, Add(-1), LoopEnd, LoopEnd>>,
     <<ReadChar, LoopStart, WriteChar, ReadChar, LoopEnd>>,
     <<Add(1), Move(1), Add(1), Move(-1), WriteChar>>,
     <<ReadChar, Move(1), ReadChar, WriteChar, Move(-1), WriteChar>>,
     <<Add(1), WriteChar, Move(1), Add(2), WriteChar, ReadChar, WriteChar>>}

Programs == Seqs(Alphabet, MaxOps) \cup LongPrograms

Inputs == {<<>>, <<65>>, <<0>>, <<65, 10>>, <<66, 0>>, <<10, 65, 66>>}

Reads(program) == \E i \in 1..Len(program) : program[i].type = "ReadChar"

RefStart(in) ==
    [pc |-> 1, ptr |-> 0, tape |-> <<>>, inp |-> in, out |-> <<>>, done |-> FALSE]

Init ==
    /\ tokens \in Programs
    /\ input \in (IF Reads(tokens) THEN Inputs ELSE {<<>>})
    /\ asm = new /\ loop_stack = <<>> /\ pos = 0 /\ starts = <<>> /\ output = <<>>
    /\ phase = "start"
    /\ branches = {}
    /\ cpu = PowerOn /\ mem = <<>> /\ stdin = <<>> /\ stdout = <<>>
    /\ status = "none" /\ exit_code = -1
    /\ last_io = [nr |-> -1, ret |-> 0]
    /\ ref = RefStart(input)
    /\ NoParse /\ NoLimits

\* compile up to its loop: a new assembler, the regions, the prologue
CompileBegin ==
    /\ phase = "start"
    /\ asm' = prologue(new)
    /\ phase' = IF asm'.panic THEN "aborted" ELSE "compile"
    /\ UNCHANGED <<loop_stack, pos, starts, output, procVars, tokens, input, frontVars, limits,
                   branches, ref>>

\* One turn of compile's loop on a token that leaves the loop stack alone.
Translate(type, a1) ==
    /\ phase = "compile"
    /\ pos < Len(tokens)
    /\ tokens[pos + 1].type = type
    /\ asm' = a1
    /\ pos' = pos + 1
    /\ starts' = Append(starts, Len(asm.machine_code))
    /\ phase' = IF a1.panic THEN "aborted" ELSE "compile"
    /\ UNCHANGED <<output, procVars, tokens, input, frontVars, limits, branches, ref>>

CompileMove ==
    /\ Translate("Move", compile_Move(asm, tokens[pos + 1].value))
    /\ UNCHANGED loop_stack

CompileAdd ==
    /\ Translate("Add", compile_Add(asm, tokens[pos + 1].value))
    /\ UNCHANGED loop_stack

CompileReadChar ==
    /\ Translate("ReadChar", compile_ReadChar(asm))
    /\ UNCHANGED loop_stack

CompileWriteChar ==
    /\ Translate("WriteChar", compile_WriteChar(asm))
    /\ UNCHANGED loop_stack

CompileLoopStart ==
    /\ Translate("LoopStart", compile_LoopStart(asm, loop_stack).asm)
    /\ loop_stack' = compile_LoopStart(asm, loop_stack).loop_stack

CompileLoopEnd ==
    /\ Translate("LoopEnd", compile_LoopEnd(asm, loop_stack).asm)
    /\ loop_stack' = compile_LoopEnd(asm, loop_stack).loop_stack

\* EndOfFile: leave the loop, emit the epilogue, assemble into the sink
CompileEnd ==
    /\ phase = "compile"
    /\ pos = Len(tokens)
    /\ LET a1 == epilogue(asm, loop_stack)
           image == IF a1.panic THEN <<>> ELSE assemble(a1)
       IN  /\ asm' = a1
           /\ output' = image
           /\ phase' = IF image = <<>> THEN "aborted" ELSE "assembled"
    /\ starts' = Append(starts, Len(asm.machine_code))
    /\ UNCHANGED <<loop_stack, pos, procVars, tokens, input, frontVars, limits, branches, ref>>

\* The image is executed: registers cleared, zero-fill segment zero, the
\* instruction pointer at the entry point (kept as an offset in the text).
Exec ==
    /\ phase = "assembled"
    /\ phase' = "run"
    /\ status' = "running"
    /\ cpu' = [PowerOn EXCEPT !.rip = Val(WSub(Entry(output), TextAddress(output)))]
    /\ mem' = <<>>
    /\ stdin' = input
    /\ UNCHANGED <<compVars, stdout, exit_code, last_io, tokens, input, frontVars, limits, branches, ref>>

Current == Fetch(output, cpu.rip)

\* One instruction other than syscall.  An undecodable instruction or an
\* access outside the segment kills the process.
Step ==
    /\ status = "running"
    /\ LET d == Current
           ea == MemoryOperand(output, cpu, d.name)
           r == Execute(cpu, mem, d, ea)
       IN  /\ d.name # "syscall"
           /\ IF d.name \notin Executable \/ ea = -1
              THEN /\ status' = "fault"
                   /\ UNCHANGED <<cpu, mem>>
              ELSE /\ cpu' = r.cpu
                   /\ mem' = r.mem
                   /\ UNCHANGED status
    /\ UNCHANGED <<compVars, stdin, stdout, exit_code, last_io, tokens, input, frontVars, limits,
                   phase, branches, ref>>

AtSyscall(nr) ==
    /\ status = "running"
    /\ Current.name = "syscall"
    /\ Val(cpu.rax) = nr

Returned(ret) == [cpu EXCEPT !.rax = W64(ret), !.rip = @ + Current.size]

\* The bytes at segment offsets from..(from + n - 1)
Bytes(m, from, n) == [i \in 1..n |-> Load(m, from + i - 1)]

RECURSIVE StoreAll(_, _, _)
StoreAll(m, from, bytes) ==
    IF bytes = <<>> THEN m
    ELSE StoreAll(Store(m, from, Head(bytes)), from + 1, Tail(bytes))

\* read(rdi, rsi, rdx) on standard input: some bytes when there are any,
\* 0 at the end of the input, or an error (-EIO).
SysRead ==
    /\ AtSyscall(0)
    /\ Val(cpu.rdi) = 0
    /\ LET buf == SegmentOffset(output, cpu.rsi)
           count == Val(cpu.rdx)
           most == IF Len(stdin) < count THEN Len(stdin) ELSE count
       IN  /\ buf >= 0 /\ SegmentOffset(output, WAdd(cpu.rsi, W64(count - 1))) >= 0
           /\ \E ret \in (1..most) \cup (IF stdin = <<>> THEN {0} ELSE {}) \cup {-5} :
                /\ cpu' = Returned(ret)
                /\ last_io' = [nr |-> 0, ret |-> ret]
                /\ IF ret > 0
                   THEN /\ mem' = StoreAll(mem, buf, SubSeq(stdin, 1, ret))
                        /\ stdin' = SubSeq(stdin, ret + 1, Len(stdin))
                   ELSE UNCHANGED <<mem, stdin>>
    /\ UNCHANGED <<compVars, stdout, status, exit_code, tokens, input, frontVars, limits, phase,
                   branches, ref>>

\* write(rdi, rsi, rdx) on standard output: some of the bytes (all, short of
\* what the output still accepts), nothing, or an error (-EPIPE).
SysWrite ==
    /\ AtSyscall(1)
    /\ Val(cpu.rdi) = 1
    /\ LET buf == SegmentOffset(output, cpu.rsi)
           count == Val(cpu.rdx)
           room == MaxOut - Len(stdout)
           most == IF room < count THEN room ELSE count
       IN  /\ buf >= 0 /\ count >= 1 /\ count < Huge
           /\ SegmentOffset(output, WAdd(cpu.rsi, W64(count - 1))) >= 0
           /\ \E ret \in (1..most) \cup {0, -32} :
                /\ cpu' = Returned(ret)
                /\ last_io' = [nr |-> 1, ret |-> ret]
                /\ stdout' = IF ret > 0 THEN stdout \o Bytes(mem, buf, ret) ELSE stdout
    /\ UNCHANGED <<compVars, mem, stdin, status, exit_code, tokens, input, frontVars, limits, phase,
                   branches, ref>>

\* exit(rdi)
SysExit ==
    /\ AtSyscall(60)
    /\ status' = "exited"
    /\ exit_code' = LowByte(cpu.rdi)
    /\ UNCHANGED <<compVars, cpu, mem, stdin, stdout, last_io, tokens, input, frontVars, limits, phase,
                   branches, ref>>

(***************************************************************************)
(* The reference interpreter: a tape of TAPE_LENGTH byte cells that wraps  *)
(* at both ends, cells that wrap modulo 256, loops on "cell is not zero".  *)
(***************************************************************************)
\* The LoopEnd closing the LoopStart at i (depth counts the open loops seen)
RECURSIVE Closing(_, _, _)
Closing(program, i, depth) ==
    IF i > Len(program) THEN 0
    ELSE IF program[i].type = "LoopStart" THEN Closing(program, i + 1, depth + 1)
    ELSE IF program[i].type = "LoopEnd"
         THEN IF depth = 1 THEN i ELSE Closing(program, i + 1, depth - 1)
    ELSE Closing(program, i + 1, depth)

RECURSIVE Opening(_, _, _)
Opening(program, i, depth) ==
    IF i < 1 THEN 0
    ELSE IF program[i].type = "LoopEnd" THEN Opening(program, i - 1, depth + 1)
    ELSE IF program[i].type = "LoopStart"
         THEN IF depth = 1 THEN i ELSE Opening(program, i - 1, depth - 1)
    ELSE Opening(program, i - 1, depth)

Interpret(r, program) ==
    IF r.pc > Len(program) THEN [r EXCEPT !.done = TRUE]
    ELSE LET t == program[r.pc]
             cell == Load(r.tape, r.ptr)
             step == [r EXCEPT !.pc = @ + 1]
         IN  CASE t.type = "Move" ->
                    [step EXCEPT !.ptr = (r.ptr + t.value) % TAPE_LENGTH]
               [] t.type = "Add" ->
                    [step EXCEPT !.tape = Store(r.tape, r.ptr, (cell + t.value) % 256)]
               [] t.type = "ReadChar" ->
                    [step EXCEPT !.tape = Store(r.tape, r.ptr, Head(r.inp)),
                                 !.inp = Tail(r.inp)]
               [] t.type = "WriteChar" ->
                    [step EXCEPT !.out = Append(r.out, cell)]
               [] t.type = "LoopStart" ->
                    IF cell = 0 THEN [r EXCEPT !.pc = Closing(program, r.pc, 0) + 1]
                    ELSE step
               [] t.type = "LoopEnd" ->
                    IF cell # 0 THEN [r EXCEPT !.pc = Opening(program, r.pc, 0) + 1]
                    ELSE step

\* The interpreter is run once the compiled program has exited normally.
RefStep ==
    /\ status = "exited" /\ exit_code = 0
    /\ ~ref.done
    /\ Len(ref.out) <= MaxOut
    /\ ref.pc <= Len(tokens) /\ tokens[ref.pc].type = "ReadChar" => ref.inp # <<>>
    /\ ref' = Interpret(ref, tokens)
    /\ UNCHANGED <<compVars, procVars, tokens, input, frontVars, limits, phase, branches>>

Next ==
    \/ CompileBegin
    \/ CompileMove
    \/ CompileAdd
    \/ CompileReadChar
    \/ CompileWriteChar
    \/ CompileLoopStart
    \/ CompileLoopEnd
    \/ CompileEnd
    \/ Exec
    \/ Step
    \/ SysRead
    \/ SysWrite
    \/ SysExit
    \/ RefStep

Spec == Init /\ [][Next]_vars

\* C1: when the compiled program has exited normally and the reference
\* interpreter has finished the same tokens on the same input, the bytes on
\* standard output are the bytes the interpreter produced.
OutputMatchesReference ==
    (status = "exited" /\ exit_code = 0 /\ ref.done) => stdout = ref.out

\* The process is running inside the code of token k
Within(k) ==
    /\ status = "running"
    /\ k + 1 <= Len(starts)
    /\ starts[k] <= cpu.rip /\ cpu.rip < starts[k + 1]

\* The offset n instructions after offset at of the text
RECURSIVE Skip(_, _)
Skip(at, n) == IF n = 0 THEN at ELSE Skip(at + Fetch(output, at).size, n - 1)

\* The offset the branch at offset at of the text leads to when taken
Target(at) ==
    LET d == Fetch(output, at) IN at + d.size + I32(d.operand)

\* LoopStarts not yet closed among the first n tokens
Unclosed(n) ==
    Cardinality({i \in 1..n : tokens[i].type = "LoopStart"})
        - Cardinality({i \in 1..n : tokens[i].type = "LoopEnd"})

\* C6: the loop stack holds one pair per unclosed LoopStart and is empty
\* once the loops are closed; in the emitted code the je of a LoopStart
\* leads to the byte after the jne of the LoopEnd that closes it, and that
\* jne leads to the byte after the je.
LoopsPair ==
    /\ phase = "compile" => Len(loop_stack) = Unclosed(pos)
    /\ phase = "assembled" =>
        /\ loop_stack = <<>>
        /\ \A i \in 1..Len(tokens) : tokens[i].type = "LoopStart" =>
              LET j == Closing(tokens, i, 0)
                  je == Skip(starts[i], 1)
                  jne == Skip(starts[j], 1)
              IN  /\ j > i
                  /\ Fetch(output, starts[i]).name = "cmp_byte_ptr_rbx_plus_r8_u8"
                  /\ Fetch(output, je).name = "je"
                  /\ Fetch(output, starts[j]).name = "cmp_byte_ptr_rbx_plus_r8_u8"
                  /\ Fetch(output, jne).name = "jne"
                  /\ Skip(jne, 1) = starts[j + 1]
                  /\ Target(je) = Skip(jne, 1)
                  /\ Target(jne) = Skip(je, 1)

\* A loop inside a loop has been compiled and run to the end
NestedLoopsRun ==
    /\ status = "exited" /\ exit_code = 0
    /\ \E i \in 1..(Len(tokens) - 1) :
          tokens[i].type = "LoopStart" /\ tokens[i + 1].type = "LoopStart"

\* Segment offset of the output buffer's byte i
OutputByte(i) == SegmentOffset(output, WAdd(cpu.rsp, W64(i)))

\* C7: the output cursor is below OUTPUT_BUFFER_SIZE when a write operation
\* starts; after the byte is stored and the cursor advanced, the flush is
\* entered if and only if the byte is the newline or the cursor equals
\* OUTPUT_BUFFER_SIZE.
WriteFlushes ==
    /\ [](status = "running" /\ Current.name = "mov_r15b_byte_ptr_rbx_plus_r8"
            => Val(cpu.r13) < OUTPUT_BUFFER_SIZE)
    /\ [][\A k \in 1..Len(tokens) :
            (Within(k) /\ tokens[k].type = "WriteChar") =>
              LET je == Skip(starts[k], 4)
                  jne == Skip(starts[k], 6)
                  flush == Skip(starts[k], 7)
              IN  /\ Fetch(output, flush).name = "xor_r15_r15"
                  /\ cpu.rip = je =>
                       /\ Current.name = "je"
                       /\ LowByte(cpu.r15) = Load(mem, OutputByte(Val(cpu.r13) - 1))
                       /\ cpu'.rip \in {flush, Skip(je, 1)}
                       /\ cpu'.rip = flush <=> LowByte(cpu.r15) = 10
                  /\ cpu.rip = jne =>
                       /\ Current.name = "jne"
                       /\ cpu'.rip \in {flush, starts[k + 1]}
                       /\ cpu'.rip = flush <=> Val(cpu.r13) = OUTPUT_BUFFER_SIZE
         ]_vars

\* The flush is entered at the sixteenth write of a byte that is not the
\* newline, nothing having been written out before
FlushAtSixteenth ==
    /\ status = "running"
    /\ stdout = <<>>
    /\ \E k \in 1..Len(tokens) :
          /\ tokens[k].type = "WriteChar"
          /\ cpu.rip = Skip(starts[k], 7)
          /\ Val(cpu.r13) = OUTPUT_BUFFER_SIZE
          /\ LowByte(cpu.r15) # 10

\* The last n bytes on standard output are the first n bytes of the buffer
Written(n) ==
    /\ n <= Len(stdout)
    /\ SubSeq(stdout, Len(stdout) - n + 1, Len(stdout)) = Bytes(mem, OutputByte(0), n)

\* The process stands at the instruction that ends a flush
FlushEnd ==
    /\ status = "running"
    /\ cpu.rip >= starts[1]
    /\ Current.name = "xor_r13_r13"

\* The last system call was a write that returned no positive count
WriteFailed == last_io.nr = 1 /\ last_io.ret <= 0

\* C8: a flush of the n buffered bytes writes the unwritten remainder
\* rsp + r15 .. rsp + n - 1 until the written count r15 equals n, the bytes
\* written so far being the first r15 bytes of the buffer, and then sets the
\* cursor to 0; the first write that returns no positive count is followed
\* by nothing but the instructions that lead to exit(1).  The loop ends: each
\* positive return adds to r15, which stays below n while the loop goes on.
FlushWritesAll ==
    /\ [](AtSyscall(1) =>
            /\ cpu.rdi = W64(1)
            /\ cpu.rsi = WAdd(cpu.rsp, cpu.r15)
            /\ cpu.rdx = WSub(cpu.r13, cpu.r15)
            /\ 0 <= Val(cpu.r15) /\ Val(cpu.r15) < Val(cpu.r13)
            /\ Val(cpu.r13) <= OUTPUT_BUFFER_SIZE
            /\ Written(Val(cpu.r15)))
    /\ [](FlushEnd =>
            /\ cpu.r15 = cpu.r13
            /\ 1 <= Val(cpu.r13) /\ Val(cpu.r13) <= OUTPUT_BUFFER_SIZE
            /\ Written(Val(cpu.r13)))
    /\ [](WriteFailed => /\ status \in {"running", "exited"}
                         /\ status = "exited" => exit_code = 1)
    /\ []((status = "exited" /\ exit_code = 1) => WriteFailed)
    /\ []((WriteFailed /\ status = "running") =>
            /\ Current.name \in {"cmp_rax_u32", "jg", "mov_rax_u32", "mov_rdi_u32",
                                 "syscall"}
            /\ Current.name = "syscall" => (Val(cpu.rax) = 60 /\ Val(cpu.rdi) = 1))
    /\ [][/\ WriteFailed => (last_io' = last_io /\ stdout' = stdout /\ stdin' = stdin)
          /\ (WriteFailed /\ status = "running" /\ status' = "running") =>
                cpu'.rip > cpu.rip
          /\ (status = "running" /\ Current.name = "add_r15_rax") =>
                /\ last_io.nr = 1 /\ last_io.ret > 0
                /\ cpu'.r15 = WAdd(cpu.r15, W64(last_io.ret))
          /\ (status = "running" /\ Current.name = "cmp_r15_r13") =>
                LET jne == Skip(cpu.rip, 1)
                IN  /\ Fetch(output, jne).name = "jne"
                    /\ Fetch(output, Skip(jne, 1)).name = "xor_r13_r13"
                    /\ Fetch(output, Target(jne)).name = "mov_rax_u32"
                    /\ Fetch(output, Target(jne)).operand = <<1, 0, 0, 0>>
          /\ (status = "running" /\ Current.name = "jne"
                /\ Fetch(output, Skip(cpu.rip, 1)).name = "xor_r13_r13") =>
                (cpu'.rip = Skip(cpu.rip, 1) <=> cpu.r15 = cpu.r13)
          /\ FlushEnd => cpu'.r13 = Zero64
         ]_vars

\* A flush of at least two bytes has written them in more than one write
FlushedInParts ==
    /\ FlushEnd
    /\ Val(cpu.r13) >= 2
    /\ last_io.nr = 1 /\ last_io.ret > 0 /\ last_io.ret < Val(cpu.r13)

\* The last system call was a read that returned no positive count
ReadFailed == last_io.nr = 0 /\ last_io.ret <= 0

\* The bytes of the input the read operations have taken so far, for the
\* registers c, the input left in, the last system call io and the status
\* st: those the kernel has delivered less those still ahead of the cursor in
\* the buffer.  Between the return of a read and the reset of the cursor, the
\* count and the cursor still describe the buffer as it was before the read.
ConsumedAt(c, in, io, st) ==
    LET delivered == Len(input) - Len(in)
        name == Fetch(output, c.rip).name
    IN  IF /\ st = "running" /\ io.nr = 0 /\ io.ret > 0
           /\ \/ name \in {"cmp_rax_u32", "mov_r12_rax"}
              \/ /\ name = "jg"
                 /\ Fetch(output, Skip(c.rip, 1)).name = "mov_rax_u32"
        THEN delivered - io.ret
        ELSE IF st = "running" /\ name = "xor_r10_r10"
        THEN delivered - Val(c.r12)
        ELSE delivered - (Val(c.r12) - Val(c.r10))

Consumed == ConsumedAt(cpu, stdin, last_io, status)

Epilogue == starts[Len(tokens) + 1]

\* C10: the epilogue enters the flush if and only if the output cursor is
\* not 0, and only once; when the flush is done or skipped the cursor is 0
\* and exit(0) follows, so that a process that leaves from the epilogue has
\* status 0 unless it left from inside the flush, a write having failed; the
\* program of no operations makes no read or write and exits with status 0.
EpilogueFlushesAndExits ==
    /\ [](phase = "assembled" =>
            LET flush == Skip(Epilogue, 2)
                skip_flush == Skip(Epilogue, 19)
            IN  /\ Fetch(output, Epilogue).name = "cmp_r13_u32"
                /\ Fetch(output, Epilogue).operand = <<0, 0, 0, 0>>
                /\ Fetch(output, Skip(Epilogue, 1)).name = "je"
                /\ Target(Skip(Epilogue, 1)) = skip_flush
                /\ Fetch(output, flush).name = "xor_r15_r15"
                /\ Fetch(output, skip_flush).name = "mov_rax_u32"
                /\ Fetch(output, skip_flush).operand = <<60, 0, 0, 0>>
                /\ Fetch(output, Skip(skip_flush, 1)).name = "xor_rdi_rdi"
                /\ Fetch(output, Skip(skip_flush, 2)).name = "syscall"
                /\ Skip(skip_flush, 3) = TextSize(output))
    /\ []((phase = "run" /\ cpu.rip >= Epilogue) =>
            LET flush == Skip(Epilogue, 2)
                skip_flush == Target(Skip(Epilogue, 1))
            IN  /\ cpu.rip = flush => cpu.r13 # Zero64
                /\ cpu.rip >= skip_flush => cpu.r13 = Zero64
                /\ status = "exited" =>
                     \/ /\ exit_code = 0
                        /\ cpu.rip = Skip(skip_flush, 2)
                     \/ /\ exit_code = 1
                        /\ WriteFailed
                        /\ cpu.rip < skip_flush)
    /\ [](tokens = <<>> => /\ last_io.nr = -1
                           /\ stdout = <<>>
                           /\ status # "fault"
                           /\ status = "exited" => exit_code = 0)
    /\ [][(status = "running" /\ cpu.rip >= Epilogue) =>
            LET je == Skip(Epilogue, 1)
                skip_flush == Target(je)
            IN  /\ cpu.rip = je =>
                     /\ cpu'.rip \in {Skip(je, 1), skip_flush}
                     /\ cpu'.rip = skip_flush <=> cpu.r13 = Zero64
                /\ (cpu.rip >= skip_flush /\ status' = "running") =>
                     cpu'.rip > cpu.rip
                /\ (cpu.rip = Skip(skip_flush, 2)) =>
                     (status' = "exited" /\ exit_code' = 0)
         ]_vars

\* The process has left with status 0 after the epilogue flushed output
FlushedAtEnd ==
    /\ status = "exited" /\ exit_code = 0
    /\ cpu.rip >= Epilogue
    /\ tokens # <<>> /\ tokens[Len(tokens)].type = "WriteChar"
    /\ LowByte(cpu.r15) >= 1
    /\ last_io.nr = 1
    /\ stdout # <<>>

(***************************************************************************)
(* SpecOp: the same pipeline on programs that bring the position (and the  *)
(* current cell) to a chosen value and then apply one Move or one Add.     *)
(***************************************************************************)
Near(n) == {n + d : d \in (-MaxDelta)..MaxDelta}

\* Positions next to both ends of the tape
Positions == {p \in Near(0) \cup Near(TAPE_LENGTH - 1) : p >= 0 /\ p < TAPE_LENGTH}

\* Shifts next to 0, to the tape length and to its negation, and two far ones
Shifts == Near(0) \cup Near(TAPE_LENGTH) \cup Near(-TAPE_LENGTH) \cup {Huge, -Huge}

Cells == {c \in Near(0) \cup Near(255) : c >= 0 /\ c <= 255}

\* Increments next to 0, 256 and -256, and next to half of them
Increments == Near(0) \cup Near(256) \cup Near(-256) \cup Near(128) \cup Near(-128)

OpPrograms ==
    {<<Move(p), Move(s)>> : p \in Positions, s \in Shifts}
    \cup {<<Move(p), Add(c), Add(v)>> :
             p \in {0, TAPE_LENGTH - 1}, c \in Cells, v \in Increments}

InitOp ==
    /\ tokens \in OpPrograms
    /\ input = <<>>
    /\ asm = new /\ loop_stack = <<>> /\ pos = 0 /\ starts = <<>> /\ output = <<>>
    /\ phase = "start"
    /\ branches = {}
    /\ cpu = PowerOn /\ mem = <<>> /\ stdin = <<>> /\ stdout = <<>>
    /\ status = "none" /\ exit_code = -1
    /\ last_io = [nr |-> -1, ret |-> 0]
    /\ ref = RefStart(input)
    /\ NoParse /\ NoLimits

NextOp ==
    \/ CompileBegin
    \/ CompileMove
    \/ CompileAdd
    \/ CompileEnd
    \/ Exec
    \/ Step
    \/ SysExit

SpecOp == InitOp /\ [][NextOp]_vars

\* The process stands at the first instruction of the code of token k
\* (k = Len(tokens) + 1: of the epilogue).
At(k) == status = "running" /\ k <= Len(starts) /\ cpu.rip = starts[k]

\* The program is a Move to position p followed by a Move
TwoMoves ==
    /\ Len(tokens) = 2
    /\ tokens[1].type = "Move" /\ tokens[2].type = "Move"
    /\ tokens[1].value >= 0 /\ tokens[1].value < TAPE_LENGTH

\* C3: from a position p in [0, TAPE_LENGTH), the code of a negative shift
\* whose reduced magnitude m is not 0 leaves the position register at
\* (p - m) mod TAPE_LENGTH.
MoveLeftWraps ==
    (/\ TwoMoves
     /\ tokens[2].value < 0
     /\ (-tokens[2].value) % TAPE_LENGTH # 0
     /\ At(3))
        => cpu.r8 = W64((tokens[1].value - ((-tokens[2].value) % TAPE_LENGTH))
                            % TAPE_LENGTH)

\* C4: from a position p in [0, TAPE_LENGTH), the code of a non-negative
\* shift delta leaves the position register at (p + delta) mod TAPE_LENGTH,
\* and no code is emitted when delta mod TAPE_LENGTH = 0.
MoveRightWraps ==
    (TwoMoves /\ tokens[2].value >= 0) =>
        /\ At(2) => cpu.r8 = W64(tokens[1].value)
        /\ At(3) => cpu.r8 = W64((tokens[1].value + (tokens[2].value % TAPE_LENGTH))
                                    % TAPE_LENGTH)
        /\ (Len(starts) = 3 /\ tokens[2].value % TAPE_LENGTH = 0)
                => starts[3] = starts[2]

\* The last position, one to the right: back at 0; and a shift by the tape
\* length has run.
MoveRightWrapped ==
    /\ TwoMoves /\ At(3)
    /\ tokens[1].value = TAPE_LENGTH - 1
    /\ tokens[2].value = TAPE_LENGTH + 1
    /\ cpu.r8 = Zero64

\* The program is a Move to position p, an Add that sets the cell, an Add
TwoAdds ==
    /\ Len(tokens) = 3
    /\ tokens[1].type = "Move" /\ tokens[2].type = "Add" /\ tokens[3].type = "Add"
    /\ tokens[2].value >= 0 /\ tokens[2].value <= 255

\* C5: the code of Add(v) leaves the current cell, holding c, at
\* (c + v) mod 256 and every other cell as it was; it is empty when
\* v mod 256 = 0, one indexed increment when 1, one indexed decrement when
\* 255, and one indexed add of v mod 256 otherwise.
AddWraps ==
    TwoAdds =>
        /\ At(3) => mem = Store(<<>>, tokens[1].value, tokens[2].value)
        /\ At(4) => mem = Store(<<>>, tokens[1].value,
                                (tokens[2].value + tokens[3].value) % 256)
        /\ Len(starts) = 4 =>
             LET v == tokens[3].value % 256
                 d == Fetch(output, starts[3])
             IN  CASE v = 0 -> starts[4] = starts[3]
                   [] v = 1 -> /\ d.name = "inc_byte_ptr_rbx_plus_r8"
                               /\ starts[4] = starts[3] + d.size
                   [] v = 255 -> /\ d.name = "dec_byte_ptr_rbx_plus_r8"
                                 /\ starts[4] = starts[3] + d.size
                   [] OTHER -> /\ d.name = "add_byte_ptr_rbx_plus_r8_u8"
                               /\ d.operand = <<v>>
                               /\ starts[4] = starts[3] + d.size

\* A decrement of a cell holding 0 has run and left 255
AddWrapped ==
    /\ TwoAdds /\ At(4)
    /\ tokens[2].value = 0 /\ tokens[3].value = -1
    /\ Load(mem, tokens[1].value) = 255


\* C13: no image is emitted for an unbalanced token sequence.  While compile
\* is in its loop no prefix it has processed closes more loops than it opened
\* and nothing has been written; an aborted compile has written nothing, and
\* it stopped either at the first LoopEnd that found the loop stack empty or
\* at the end of a stream that left a loop open; where bytes have been
\* written the whole sequence is balanced.
UnbalancedAborts ==
    /\ phase = "compile" =>
          /\ output = <<>>
          /\ \A n \in 0..pos : Unclosed(n) >= 0
    /\ phase = "aborted" =>
          /\ output = <<>>
          /\ asm.panic
          /\ \A n \in 0..(pos - 1) : Unclosed(n) >= 0
          /\ \/ pos > 0 /\ tokens[pos].type = "LoopEnd" /\ Unclosed(pos) < 0
             \/ pos = Len(tokens) /\ Unclosed(pos) > 0
    /\ output # <<>> =>
          /\ \A n \in 0..Len(tokens) : Unclosed(n) >= 0
          /\ Unclosed(Len(tokens)) = 0

\* The end of the stream was reached with a loop open, after other code.
UnclosedLoopAborted ==
    /\ phase = "aborted"
    /\ pos = Len(tokens)
    /\ Len(tokens) = 2
    /\ Unclosed(pos) = 1
    /\ output = <<>>

\* C15: the image assemble writes is, by file offset: the 64-byte file
\* header at 0; the 56-byte text program header at 64, file size and memory
\* size both L; the 56-byte bss program header at 120, file size 0 and memory
\* size B; the section headers at 176 (null), 240 (text, size L), 304 (bss,
\* size B) and 368 (string table); the 22-byte string table at 432; the L
\* bytes of machine code at 454 = 0x1c6, the offset the text program header
\* and the text section header declare.  The image is 0x1c6 + L bytes long.
ImageLayout ==
    output # <<>> =>
        LET L == Len(asm.machine_code)
            B == asm.memory_allocated
        IN  /\ Len(output) = 454 + L
            /\ Field(output, 0, 64) = ELF_HEADER
            /\ Field(output, 64, 32) = TEXT_PROGRAM_HEADER_START
            /\ Field(output, 96, 8) = to_le_bytes(L, 8)
            /\ Field(output, 104, 8) = to_le_bytes(L, 8)
            /\ Field(output, 112, 8) = TEXT_PROGRAM_HEADER_END
            /\ Field(output, 120, 40) = BSS_PROGRAM_HEADER_START
            /\ Field(output, 152, 8) = Zero64
            /\ Field(output, 160, 8) = to_le_bytes(B, 8)
            /\ Field(output, 168, 8) = BSS_PROGRAM_HEADER_END
            /\ Field(output, 176, 64) = DUMMY_SECTION_HEADER
            /\ Field(output, 240, 32) = TEXT_SECTION_HEADER_START
            /\ Field(output, 272, 8) = to_le_bytes(L, 8)
            /\ Field(output, 280, 24) = TEXT_SECTION_HEADER_END
            /\ Field(output, 304, 32) = BSS_SECTION_HEADER_START
            /\ Field(output, 336, 8) = to_le_bytes(B, 8)
            /\ Field(output, 344, 24) = BSS_SECTION_HEADER_END
            /\ Field(output, 368, 64) = STRING_TABLE_SECTION_HEADER
            /\ Field(output, 432, 22) = STRING_TABLE_CONTENTS
            /\ Field(output, 454, L) = asm.machine_code
            /\ Field(output, 72, 8) = to_le_bytes(454, 8)
            /\ Field(output, 264, 8) = to_le_bytes(454, 8)

\* An image of a program with a loop has been written.
LoopImageWritten ==
    /\ phase = "assembled"
    /\ \E i \in 1..Len(tokens) : tokens[i].type = "LoopEnd"
    /\ Len(output) > 454 + 82
    /\ Field(output, 96, 8) # Field(output, 160, 8)

\* C16: in both program headers the file offset and the virtual address are
\* congruent modulo 4096; the entry point is TEXT_VIRTUAL_ADDRESS, is not
\* zero, and is the address in the text program header and in the text
\* section header; the text of an image that was written ends at or below
\* BSS_VIRTUAL_ADDRESS, and so does a text of the largest accepted length.
AddressesCongruent ==
    output # <<>> =>
        LET Page(x) == x[1] + 256 * (x[2] % 16)
            end == WAdd(TEXT_VIRTUAL_ADDRESS, Field(output, 96, 8))
        IN  /\ Page(Field(output, 72, 8)) = Page(Field(output, 80, 8))
            /\ Page(Field(output, 128, 8)) = Page(Field(output, 136, 8))
            /\ Entry(output) = TEXT_VIRTUAL_ADDRESS
            /\ Entry(output) # Zero64
            /\ Field(output, 80, 8) = Entry(output)
            /\ Field(output, 256, 8) = Entry(output)
            /\ Field(output, 136, 8) = BSS_VIRTUAL_ADDRESS
            /\ ~ULess(MAX_TEXT_SIZE, Field(output, 96, 8))
            /\ ~ULess(end, TEXT_VIRTUAL_ADDRESS)
            /\ ~ULess(BSS_VIRTUAL_ADDRESS, end)
            /\ ULess(TEXT_VIRTUAL_ADDRESS, BSS_VIRTUAL_ADDRESS)
            /\ WAdd(TEXT_VIRTUAL_ADDRESS, MAX_TEXT_SIZE) = BSS_VIRTUAL_ADDRESS

\* The image of the longest program of the model has been started.
LongImageLoaded ==
    /\ status = "running"
    /\ Len(tokens) = 7
    /\ Entry(output) = TextAddress(output)

(***************************************************************************)
(* SpecAssemble: any sequence of calls of the assembler's label interface, *)
(* ended by a call of assemble, which consumes the assembler.              *)
(***************************************************************************)
AsmAssemble ==
    /\ phase = "asm" /\ ~asm.panic
    /\ output' = assemble(asm)
    /\ phase' = IF output' = <<>> THEN "aborted" ELSE "written"
    /\ UNCHANGED <<asm, loop_stack, pos, starts, procVars, tokens, input, frontVars, limits,
                   branches, ref>>

NextAssemble == NextAsm \/ AsmAssemble

SpecAssemble == InitAsm /\ [][NextAssemble]_vars

\* C11: assemble writes no image while a label that a branch was generated
\* to is still pending: whenever an image has been written, the label of
\* every recorded branch is resolved (so no branch keeps its placeholder).
PendingLabelAborts ==
    output # <<>> =>
        \A b \in branches : asm.label_states[b.label + 1].populated


(***************************************************************************)
(* SpecLimits: allocate_memory and assemble on an assembler whose total    *)
(* allocation and code length stand next to MAX_BSS_SIZE and MAX_TEXT_SIZE.*)
(* The two quantities are 64-bit words; limits.requested is the total the  *)
(* last call of allocate_memory asked for, whether or not it was accepted. *)
(***************************************************************************)
InitLimits ==
    /\ LET Lengths ==
              {W64(0), W64(82)}
              \cup {WSub(MAX_TEXT_SIZE, W64(k)) : k \in 0..MaxDelta}
              \cup {WAdd(MAX_TEXT_SIZE, W64(k)) : k \in 1..MaxDelta}
       IN  \E length \in Lengths :
              limits = [memory_allocated |-> Zero64, length |-> length,
                        requested |-> Zero64, regions |-> 0, state |-> "open"]
    /\ asm = new /\ phase = "limits" /\ branches = {}
    /\ NoCompile /\ NoProcess /\ NoParse

LimitsAllocateMemory ==
    /\ limits.state = "open"
    /\ limits.regions < MaxRegions
    /\ LET Sizes ==
              {W64(INPUT_BUFFER_SIZE)}
              \cup {WSub(MAX_BSS_SIZE, W64(k)) : k \in 0..MaxDelta}
              \cup {WSub(MAX_BSS_SIZE, W64(INPUT_BUFFER_SIZE + k)) :
                        k \in (0 - MaxDelta)..MaxDelta}
              \cup {WAdd(MAX_BSS_SIZE, W64(k)) : k \in 1..MaxDelta}
       IN  \E size \in Sizes :
              limits' =
                IF allocation_fits(limits.memory_allocated, size)
                THEN [limits EXCEPT
                        !.memory_allocated = WAdd(@, size),
                        !.requested = WAdd(limits.memory_allocated, size),
                        !.regions = @ + 1]
                ELSE [limits EXCEPT
                        !.requested = WAdd(limits.memory_allocated, size),
                        !.state = "allocate_memory panicked"]
    /\ UNCHANGED <<compVars, procVars, tokens, input, phase, branches, ref,
                   frontVars>>

LimitsAssemble ==
    /\ limits.state = "open"
    /\ limits' = [limits EXCEPT !.state =
                    IF text_fits(limits.length) THEN "written"
                    ELSE "assemble panicked"]
    /\ UNCHANGED <<compVars, procVars, tokens, input, phase, branches, ref,
                   frontVars>>

NextLimits == LimitsAllocateMemory \/ LimitsAssemble

SpecLimits == InitLimits /\ [][NextLimits]_vars

\* C17: allocate_memory panics exactly when the total allocation it is asked
\* for exceeds MAX_BSS_SIZE, the span from BSS_VIRTUAL_ADDRESS up to and
\* including MAX_VIRTUAL_ADDRESS, and assemble panics exactly when the code
\* is longer than MAX_TEXT_SIZE; a total or a length equal to its limit is
\* accepted.
LimitsInclusive ==
    phase = "limits" =>
        /\ limits.state = "allocate_memory panicked"
              <=> ULess(MAX_BSS_SIZE, limits.requested)
        /\ limits.state = "assemble panicked" => ULess(MAX_TEXT_SIZE, limits.length)
        /\ limits.state = "written" => ~ULess(MAX_TEXT_SIZE, limits.length)
        /\ ~ULess(MAX_BSS_SIZE, limits.memory_allocated)


(***************************************************************************)
(* The tape and the two buffers in the zero-fill segment (Spec).           *)
(***************************************************************************)
\* C18: the three regions lie one after the other in the zero-fill segment
\* (tape at 0, input buffer at TAPE_LENGTH, output buffer after it); at the
\* start of the code of every token and of the epilogue the position register
\* is in [0, TAPE_LENGTH); every access to the current cell addresses a byte
\* of the tape, and every access to a buffer a byte of that buffer.
CellsInTape ==
    (status = "running" /\ cpu.rip >= starts[1]) =>
        LET name == Current.name
            at == MemoryOperand(output, cpu, name)
        IN  /\ SegmentOffset(output, cpu.rbx) = 0
            /\ SegmentOffset(output, cpu.r14) = TAPE_LENGTH
            /\ SegmentOffset(output, cpu.rsp) = TAPE_LENGTH + INPUT_BUFFER_SIZE
            /\ asm.memory_allocated
                    = TAPE_LENGTH + INPUT_BUFFER_SIZE + OUTPUT_BUFFER_SIZE
            /\ \A k \in 1..Len(starts) :
                    cpu.rip = starts[k] => Val(cpu.r8) \in 0..(TAPE_LENGTH - 1)
            /\ name = "mov_r15b_byte_ptr_r14_plus_r10" =>
                    at \in TAPE_LENGTH..(TAPE_LENGTH + INPUT_BUFFER_SIZE - 1)
            /\ name = "mov_byte_ptr_rsp_plus_r13_r15b" =>
                    at \in (TAPE_LENGTH + INPUT_BUFFER_SIZE)
                            ..(asm.memory_allocated - 1)
            /\ (at # -2 /\ name \notin {"mov_r15b_byte_ptr_r14_plus_r10",
                                        "mov_byte_ptr_rsp_plus_r13_r15b"}) =>
                    at \in 0..(TAPE_LENGTH - 1)


(***************************************************************************)
(* The parser (stream.rs, parser.rs).  A Stream is [line, column, peeked,  *)
(* bytes]: peeked is <<>> for None and <<byte>> for Some(byte), bytes the  *)
(* bytes not yet read.  The byte source is a text in memory and returns no *)
(* I/O error.  A call returns [stream, result]: the stream it leaves and   *)
(* the tree or the syntax error it returns (its message without the       *)
(* quotation marks around the bracket).                                    *)
(***************************************************************************)
Stream_new(read) ==
    [line |-> 1, column |-> 1, peeked |-> <<>>, bytes |-> read]

RECURSIVE peek(_)
peek(s) ==
    IF s.peeked # <<>> \/ s.bytes = <<>> THEN s
    ELSE LET byte == Head(s.bytes)
             rest == [s EXCEPT !.bytes = Tail(@)]
         IN  IF byte \in {62, 60, 43, 45, 46, 44, 91, 93}     \* > < + - . , [ ]
             THEN [rest EXCEPT !.peeked = <<byte>>]
             ELSE IF byte = 10
             THEN peek([rest EXCEPT !.line = @ + 1, !.column = 1])
             ELSE peek([rest EXCEPT !.column = @ + 1])

\* forward without the step of the column.
forward_column_kept(s) == [s EXCEPT !.peeked = <<>>]

forward(s) == [s EXCEPT !.column = @ + 1, !.peeked = <<>>]

Loop(children) == [type |-> "Loop", value |-> 0, children |-> children]
EndOfFile == [type |-> "EndOfFile", value |-> 0]
SyntaxError(line, column, message) ==
    [type |-> "SyntaxError", line |-> line, column |-> column, message |-> message]

RECURSIVE parse_move(_, _)
parse_move(s, shift) ==
    LET p == peek(s)
    IN  IF p.peeked = <<62>> THEN parse_move(forward(p), shift + 1)
        ELSE IF p.peeked = <<60>> THEN parse_move(forward(p), shift - 1)
        ELSE [stream |-> p, result |-> Move(shift)]

RECURSIVE parse_increment(_, _)
parse_increment(s, value) ==
    LET p == peek(s)
    IN  IF p.peeked = <<43>> THEN parse_increment(forward(p), value + 1)
        ELSE IF p.peeked = <<45>> THEN parse_increment(forward(p), value - 1)
        ELSE [stream |-> p, result |-> Add(value)]

RECURSIVE parse(_)
RECURSIVE parse_loop(_, _, _, _)
\* parse_loop from one turn of its loop on: on a peeked `]` it breaks, and
\* the `]` stays peeked.
parse_loop(s, line, column, children) ==
    LET p == peek(s)
    IN  IF p.peeked = <<93>> THEN [stream |-> p, result |-> Loop(children)]
        ELSE LET r == parse(p)
             IN  IF r.result.type = "SyntaxError" THEN r
                 ELSE IF r.result = EndOfFile
                 THEN [stream |-> r.stream,
                       result |-> SyntaxError(line, column,
                                              "unmatched opening bracket [")]
                 ELSE parse_loop(r.stream, line, column,
                                 Append(children, r.result))

parse(s) ==
    LET p == peek(s)
    IN  IF p.peeked = <<>> THEN [stream |-> p, result |-> EndOfFile]
        ELSE LET byte == p.peeked[1]
                 line == p.line
                 column == p.column
                 f == forward(p)
             IN  CASE byte \in {62, 60} ->
                        parse_move(f, IF byte = 62 THEN 1 ELSE -1)
                   [] byte \in {43, 45} ->
                        parse_increment(f, IF byte = 43 THEN 1 ELSE -1)
                   [] byte = 91 -> parse_loop(f, line, column, <<>>)
                   [] byte = 46 -> [stream |-> f, result |-> WriteChar]
                   [] byte = 44 -> [stream |-> f, result |-> ReadChar]
                   [] byte = 93 ->
                        [stream |-> f,
                         result |-> SyntaxError(line, column,
                                                "unmatched closing bracket ]")]

(***************************************************************************)
(* SpecParse: a Parser on a source text, and Parser::parse called until it *)
(* returns EndOfFile or an error.                                          *)
(***************************************************************************)
InitParse ==
    /\ LET SourceBytes == {43, 60, 91, 93, 10, 32}          \* + < [ ] LF space
           LongSources ==                  \* [[.],]  +[-[>]]<  [ LF [ LF ] ] ,  [][]+
               {<<91, 91, 46, 93, 44, 93>>,
                <<43, 91, 45, 91, 62, 93, 93, 60>>,
                <<91, 10, 91, 10, 93, 32, 93, 44>>,
                <<91, 93, 91, 93, 43>>}
       IN  source \in Seqs(SourceBytes, MaxSource) \cup LongSources
    /\ parser = [stream |-> Stream_new(source)]
    /\ parsed = <<>>
    /\ asm = new /\ phase = "parse" /\ branches = {}
    /\ NoCompile /\ NoProcess /\ NoLimits

ParseCall ==
    /\ phase = "parse"
    /\ parsed # <<>> =>
            parsed[Len(parsed)].type \notin {"EndOfFile", "SyntaxError"}
    /\ LET r == parse(parser.stream)
       IN  /\ parser' = [stream |-> r.stream]
           /\ parsed' = Append(parsed, r.result)
    /\ UNCHANGED <<compVars, procVars, tokens, input, phase, branches, ref,
                   source, limits>>

SpecParse == InitParse /\ [][ParseCall]_vars

\* C14: in a source whose only bracket is one `[` or one `]`, at index i, the
\* calls of parse end with a syntax error and not with EndOfFile; the error
\* names that bracket and carries its line, 1 + the number of newline bytes
\* before i, and its column, the number of bytes from the byte after the last
\* newline before i (or from the first byte) up to and including i.
LoneBracketReported ==
    LET brackets == {i \in 1..Len(source) : source[i] \in {91, 93}}
        i == CHOOSE j \in brackets : TRUE
        newlines == {j \in 1..(i - 1) : source[j] = 10}
        last_newline == IF newlines = {} THEN 0
                        ELSE CHOOSE j \in newlines : \A k \in newlines : k <= j
        last == parsed[Len(parsed)]
    IN  (phase = "parse" /\ Cardinality(brackets) = 1 /\ parsed # <<>>) =>
            /\ \A k \in 1..(Len(parsed) - 1) :
                    parsed[k].type \notin {"EndOfFile", "SyntaxError"}
            /\ last.type # "EndOfFile"
            /\ last.type = "SyntaxError" =>
                    last = SyntaxError(
                             Cardinality(newlines) + 1, i - last_newline,
                             IF source[i] = 91
                             THEN "unmatched opening bracket ["
                             ELSE "unmatched closing bracket ]")
            /\ (parser.stream.bytes = <<>> /\ parser.stream.peeked = <<>>)
                    => last.type = "SyntaxError"

\* An opening bracket on the second line, after another byte, was reported.
SecondLineBracketReported ==
    /\ phase = "parse"
    /\ Cardinality({i \in 1..Len(source) : source[i] \in {91, 93}}) = 1
    /\ parsed # <<>>
    /\ parsed[Len(parsed)]
            = SyntaxError(2, 2, "unmatched opening bracket [")

\* C19: for a source whose brackets are balanced, no call of parse returns a
\* syntax error.
BalancedParses ==
    LET opened(n) == Cardinality({i \in 1..n : source[i] = 91})
        closed(n) == Cardinality({i \in 1..n : source[i] = 93})
    IN  (/\ phase = "parse"
         /\ \A n \in 0..Len(source) : closed(n) <= opened(n)
         /\ closed(Len(source)) = opened(Len(source)))
        => \A k \in 1..Len(parsed) : parsed[k].type # "SyntaxError"

====
